---- MODULE Spec2Model ----
(***************************************************************************)
(* A model of aio (AlexEidt/aio): the sample-format catalog, the codec     *)
(* between byte buffers and typed sample views, and the stream handles     *)
(* (Audio, Microphone, AudioWriter, Player) with their lazily started      *)
(* ffmpeg/ffplay subprocess and pipe.                                      *)
(*                                                                         *)
(* Strings of the program are sequences of one-character strings, so that  *)
(* concatenation, slicing and regular-expression matching are computed.    *)
(***************************************************************************)
EXTENDS Integers, Sequences, FiniteSets, TLC

VARIABLES
    host,       \* byte order of the machine: "le" or "be" (endianness())
    tok,        \* format catalog: the token under test
    fmtRes,     \* format catalog: [op, out, err] of the last operation
    cfmt,       \* codec: tool-facing format of the buffer
    cbuf,       \* codec: the byte buffer
    cview,      \* codec: the typed view bytesToSamples returned
    cout,       \* codec: the bytes samplesToBytes returned
    cphase,     \* codec: "idle", "input", "decoded", "encoded"
    kind,       \* handle: "Audio", "Microphone", "AudioWriter" or "Player"
    phase,      \* handle: "idle", "new" (not constructed), "ready", "rejected"
                \*   (the constructor returned an error), "panicked", "hung",
                \*   "closing" (the caller is inside Close), "exited"
    format,     \* handle: tool-facing format token (field format)
    channels,   \* handle: field channels
    samplerate, \* handle: field samplerate
    buffer,     \* handle: field buffer, [nil, bytes]
    cmd,        \* handle: field cmd, "nil" or "set"
    pipe,       \* handle: field pipe, "nil", "open" or "closed"
    ended,      \* handle: field ended (Audio)
    proc,       \* the streaming subprocess: "none", "running", "exited" (ended,
                \*   not waited for), "waited", "killed"
    stream,     \* bytes the subprocess has still to emit on its stdout
    total,      \* length of the whole stream the subprocess emits
    written,    \* bytes handed to the subprocess's stdin so far
    spawned,    \* streaming subprocesses started for the handle
    listeners,  \* signal listeners registered by the handle (cleanup)
    ioCalled,   \* a Read, Write or Play call has been made
    last,       \* handle: [op, ret] of the last call
    delivered,  \* Audio: Buffer() contents after the Reads that returned true,
                \*   concatenated
    payload,    \* AudioWriter, Player: the samples argument of the last Write/Play
    closed,     \* the caller has called Close on the handle
    arg,        \* utilities: the argument of the function applied
    res,        \* utilities: [op, val] the function applied and what it returned
    sig,        \* interrupt/termination signal: "none" or "sent"
    resp,       \* the handle's signal goroutine (cleanup): "waiting", "woken",
                \*   "pipeClosed", "killed", "done"
    exit        \* exit status of the host process: "none", or 1 (os.Exit(1)) or
                \*   2 (a panic)

fmtVars == <<tok, fmtRes>>
codecVars == <<cfmt, cbuf, cview, cout, cphase>>
configVars == <<kind, format, channels, samplerate, total>>
handleVars == <<kind, phase, format, channels, samplerate, buffer, cmd, pipe, ended,
                proc, stream, total, written, spawned, listeners, ioCalled, last,
                delivered, payload, closed>>
utilVars == <<arg, res>>
signalVars == <<sig, resp, exit>>
vars == <<host, tok, fmtRes, cfmt, cbuf, cview, cout, cphase,
          kind, phase, format, channels, samplerate, buffer, cmd, pipe, ended,
          proc, stream, total, written, spawned, listeners, ioCalled, last,
          delivered, payload, closed, arg, res, sig, resp, exit>>

----------------------------------------------------------------------------
(* Bounds *)

\* How many endianness suffixes a candidate token may carry (s16, s16le, s16lele).
MaxSuffixes == 2
\* Most samples in a byte buffer handed to the codec.
MaxCodecSamples == 3
\* Byte contents of a buffer are drawn from the patterns 0..MaxSeed (ByteAt).
MaxSeed == 2
\* Largest channel count a handle is configured with.
MaxChannels == 2
\* Longest buffer a caller passes to SetBuffer.
MaxBuf == 4
\* Longest byte stream the subprocess emits.
MaxStream == 5
\* Most samples in one Write/Play payload, and most bytes written in all.
MaxPayload == 2
MaxWritten == 4
\* Most bytes one Write call on the pipe accepts.
MaxChunk == 2
\* Longest output of ffprobe.
MaxMetadata == 4
\* Most lines in a device listing.
MaxLines == 3
\* Most reads of a pipe counted after a read of it failed.
MaxRetried == 2
\* Handles of one host process.
MaxHandles == 3
\* Most records ffprobe prints for the audio streams of a file.
MaxRecords == 2
\* Most audio devices in a listing, and the largest device index asked for.
MaxDevices == 2
\* Bytes a pipe holds before a write to it blocks.
PipeCapacity == 2
\* Most bytes a tool prints.
MaxOutput == 4
\* Most pieces in a text ffmpeg prints about a microphone.
MaxPieces == 3

----------------------------------------------------------------------------
(* Strings *)

Hosts == {<<"l", "e">>, <<"b", "e">>}
Digits == {"0", "1", "2", "3", "4", "5", "6", "7", "8", "9"}

DigitVal(c) ==
    CASE c = "0" -> 0 [] c = "1" -> 1 [] c = "2" -> 2 [] c = "3" -> 3
      [] c = "4" -> 4 [] c = "5" -> 5 [] c = "6" -> 6 [] c = "7" -> 7
      [] c = "8" -> 8 [] c = "9" -> 9

----------------------------------------------------------------------------
(* Format catalog *)

\* The regular expression of checkFormat, alternative by alternative:
\* ^(([us]8)|([us]((16)|(24)|(32))[bl]e)|(f((32)|(64))[bl]e))$
MatchInt8(f) ==
    /\ Len(f) = 2
    /\ f[1] \in {"u", "s"}
    /\ f[2] = "8"

MatchInt(f) ==
    /\ Len(f) = 5
    /\ f[1] \in {"u", "s"}
    /\ SubSeq(f, 2, 3) \in {<<"1", "6">>, <<"2", "4">>, <<"3", "2">>}
    /\ f[4] \in {"b", "l"}
    /\ f[5] = "e"

MatchFloat(f) ==
    /\ Len(f) = 5
    /\ f[1] = "f"
    /\ SubSeq(f, 2, 3) \in {<<"3", "2">>, <<"6", "4">>}
    /\ f[4] \in {"b", "l"}
    /\ f[5] = "e"

\* A bug checkFormat could have: the 8-bit alternative written [us]8([bl]e)?.
MatchInt8Suffixed(f) ==
    \/ MatchInt8(f)
    \/ /\ Len(f) = 4
       /\ MatchInt8(SubSeq(f, 1, 2))
       /\ f[3] \in {"b", "l"}
       /\ f[4] = "e"

checkFormatLoose(fmt) ==
    IF MatchInt8Suffixed(fmt) \/ MatchInt(fmt) \/ MatchFloat(fmt)
    THEN "nil"
    ELSE IF Len(fmt) < 2 THEN "panic" ELSE "error"

\* checkFormat: "nil" when the token matches; otherwise the error, whose message
\* slices format[:len(format)-2] and so panics on a token shorter than two.
checkFormat(fmt) ==
    IF MatchInt8(fmt) \/ MatchInt(fmt) \/ MatchFloat(fmt)
    THEN "nil"
    ELSE IF Len(fmt) < 2 THEN "panic" ELSE "error"

\* A bug createFormat could have: a token that already ends in le/be is kept.
createFormatKeepSuffixed(fmt, h) ==
    IF fmt \in {<<"u", "8">>, <<"s", "8">>} THEN fmt
    ELSE IF Len(fmt) >= 2 /\ SubSeq(fmt, Len(fmt) - 1, Len(fmt)) \in Hosts
         THEN fmt
         ELSE fmt \o h

\* createFormat: u8 and s8 unchanged, every other token gets endianness() appended.
createFormat(fmt, h) ==
    IF fmt \in {<<"u", "8">>, <<"s", "8">>} THEN fmt ELSE fmt \o h

\* regexp `\d{1,2}` FindString: the leftmost run of one or two digits; parse of it
\* (0 when there is none, as parse returns 0 on a failed ParseFloat).
RECURSIVE FirstDigitAt(_, _)
FirstDigitAt(s, i) ==
    IF i > Len(s) THEN 0
    ELSE IF s[i] \in Digits THEN i ELSE FirstDigitAt(s, i + 1)

bitsPerSample(fmt) ==
    LET i == FirstDigitAt(fmt, 1) IN
    IF i = 0 THEN 0
    ELSE IF i < Len(fmt) /\ fmt[i + 1] \in Digits
         THEN 10 * DigitVal(fmt[i]) + DigitVal(fmt[i + 1])
         ELSE DigitVal(fmt[i])

\* Candidate tokens: kind letter, width digits, endianness suffixes, and the two
\* companding names.
Kinds == {<<"u">>, <<"s">>, <<"f">>, <<"x">>, <<>>}
Widths == {<<"8">>, <<"1", "6">>, <<"2", "4">>, <<"3", "2">>, <<"6", "4">>, <<>>}

RECURSIVE SuffixesUpTo(_)
SuffixesUpTo(n) ==
    IF n = 0 THEN {<<>>}
    ELSE LET prev == SuffixesUpTo(n - 1) IN
         prev \cup {s \o e : s \in prev, e \in Hosts}

alaw == <<"a", "l", "a", "w">>
mulaw == <<"m", "u", "l", "a", "w">>

CandidateTokens ==
    {k \o w \o s : k \in Kinds, w \in Widths, s \in SuffixesUpTo(MaxSuffixes)}
        \cup {alaw, mulaw}

NoResult == [op |-> "none", out |-> <<>>, err |-> "nil"]

FormatIdle ==
    /\ tok = <<>>
    /\ fmtRes = NoResult

\* TestFormatParsing: checkFormat applied to the token as given.
CheckFormatOp ==
    /\ fmtRes.op = "none"
    /\ fmtRes' = [op |-> "check", out |-> tok, err |-> checkFormat(tok)]
    /\ UNCHANGED <<utilVars, signalVars>>
    /\ UNCHANGED <<host, tok, codecVars, handleVars>>

\* The constructors' normalization: createFormat, then checkFormat of its result.
NormalizeOp ==
    /\ fmtRes.op = "none"
    /\ LET f == createFormat(tok, host) IN
       fmtRes' = [op |-> "normalize", out |-> f, err |-> checkFormat(f)]
    /\ UNCHANGED <<utilVars, signalVars>>
    /\ UNCHANGED <<host, tok, codecVars, handleVars>>

----------------------------------------------------------------------------
(* Sample codec *)

RECURSIVE Reverse(_)
Reverse(s) == IF s = <<>> THEN <<>> ELSE Reverse(Tail(s)) \o <<Head(s)>>

RECURSIVE Flatten(_)
Flatten(ss) == IF ss = <<>> THEN <<>> ELSE Head(ss) \o Flatten(Tail(ss))

\* A sample value is written as its base-256 numeral, most significant digit
\* first (for the signed and float types: the numeral of its bit pattern).
\* The value a machine of byte order h reads from the bytes of one element:
NativeValue(bytes, h) == IF h = <<"l", "e">> THEN Reverse(bytes) ELSE bytes
\* and the bytes such a machine stores for a value:
NativeBytes(value, h) == IF h = <<"l", "e">> THEN Reverse(value) ELSE value

\* The element type bytesToSamples picks for a fmt (its switch); "bytes" is the
\* default branch, which returns the buffer itself.
ViewType(fmt) ==
    CASE fmt \in {<<"f", "3", "2", "b", "e">>, <<"f", "3", "2", "l", "e">>} -> "float32"
      [] fmt \in {<<"f", "6", "4", "b", "e">>, <<"f", "6", "4", "l", "e">>} -> "float64"
      [] fmt \in {<<"s", "1", "6", "b", "e">>, <<"s", "1", "6", "l", "e">>} -> "int16"
      [] fmt \in {<<"s", "3", "2", "b", "e">>, <<"s", "3", "2", "l", "e">>} -> "int32"
      [] fmt = <<"s", "8">> -> "int8"
      [] fmt \in {<<"u", "1", "6", "b", "e">>, <<"u", "1", "6", "l", "e">>} -> "uint16"
      [] fmt \in {<<"u", "3", "2", "b", "e">>, <<"u", "3", "2", "l", "e">>} -> "uint32"
      [] OTHER -> "bytes"

\* Bytes of one element of a Go slice type (0: not a type samplesToBytes knows).
TypeWidth(type) ==
    CASE type \in {"uint8", "int8"} -> 1
      [] type \in {"uint16", "int16"} -> 2
      [] type \in {"uint32", "int32", "float32"} -> 4
      [] type = "float64" -> 8
      [] OTHER -> 0

\* A bug bytesToSamples could have: every element read as big-endian.
bytesToSamplesBigEndian(buf, size, fmt, h) ==
    LET type == ViewType(fmt)
        w == TypeWidth(type)
    IN  IF type = "bytes"
        THEN [type |-> "uint8", elems |-> [i \in 1..Len(buf) |-> <<buf[i]>>]]
        ELSE [type |-> type,
              elems |-> [i \in 1..size |->
                            NativeValue(SubSeq(buf, (i - 1) * w + 1, i * w), <<"b", "e">>)]]

\* A bug bytesToSamples could have: the default case cut to `size` elements.
bytesToSamplesDefaultSized(buf, size, fmt, h) ==
    LET type == ViewType(fmt)
        w == TypeWidth(type)
    IN  IF type = "bytes"
        THEN [type |-> "uint8", elems |-> [i \in 1..size |-> <<buf[i]>>]]
        ELSE [type |-> type,
              elems |-> [i \in 1..size |->
                            NativeValue(SubSeq(buf, (i - 1) * w + 1, i * w), h)]]

\* bytesToSamples: a slice of `size` elements of the fmt's type over the memory
\* of the buffer, read in the machine's byte order; the buffer itself by default.
bytesToSamples(buf, size, fmt, h) ==
    LET type == ViewType(fmt)
        w == TypeWidth(type)
    IN  IF type = "bytes"
        THEN [type |-> "uint8", elems |-> [i \in 1..Len(buf) |-> <<buf[i]>>]]
        ELSE [type |-> type,
              elems |-> [i \in 1..size |->
                            NativeValue(SubSeq(buf, (i - 1) * w + 1, i * w), h)]]

\* A bug samplesToBytes could have: the 32-bit integer cases sized like 16-bit ones.
samplesToBytesShort32(data, h) ==
    LET w == TypeWidth(data.type)
        size == IF data.type \in {"uint32", "int32"}
                THEN Len(data.elems) * 2 ELSE Len(data.elems) * w
        memory == Flatten([i \in 1..Len(data.elems) |-> NativeBytes(data.elems[i], h)])
    IN  IF w = 0
        THEN [nil |-> TRUE, bytes |-> <<>>]
        ELSE [nil |-> FALSE, bytes |-> SubSeq(memory, 1, size)]

\* A bug samplesToBytes could have: an empty buffer, not nil, for other types.
samplesToBytesAnyType(data, h) ==
    LET w == TypeWidth(data.type)
        size == Len(data.elems) * w
        memory == Flatten([i \in 1..Len(data.elems) |-> NativeBytes(data.elems[i], h)])
    IN  [nil |-> FALSE, bytes |-> SubSeq(memory, 1, size)]

\* samplesToBytes: the first len(data)*width bytes of the slice's memory; nil for
\* any other type.
samplesToBytes(data, h) ==
    LET w == TypeWidth(data.type)
        size == Len(data.elems) * w
        memory == Flatten([i \in 1..Len(data.elems) |-> NativeBytes(data.elems[i], h)])
    IN  IF w = 0
        THEN [nil |-> TRUE, bytes |-> <<>>]
        ELSE [nil |-> FALSE, bytes |-> SubSeq(memory, 1, size)]

\* Byte i of the content pattern `seed`: pairwise different along a buffer.
ByteAt(seed, i) == (97 * seed + 41 * i + 7) % 256

PatternBytes(seed, n) == [i \in 1..n |-> ByteAt(seed, i)]

NoView == [type |-> "none", elems |-> <<>>]
NoBytes == [nil |-> TRUE, bytes |-> <<>>]

CodecIdle ==
    /\ cfmt = <<>>
    /\ cbuf = <<>>
    /\ cview = NoView
    /\ cout = NoBytes
    /\ cphase = "idle"

\* Samples(): bytesToSamples(buf, len(buf)/(bps/8), fmt).
DecodeOp ==
    /\ cphase = "input"
    /\ cview' = bytesToSamples(cbuf, Len(cbuf) \div (bitsPerSample(cfmt) \div 8), cfmt, host)
    /\ cphase' = "decoded"
    /\ UNCHANGED <<utilVars, signalVars>>
    /\ UNCHANGED <<host, fmtVars, cfmt, cbuf, cout, handleVars>>

\* Write(samples) / Play(samples): samplesToBytes of the typed view.
EncodeOp ==
    /\ cphase = "decoded"
    /\ cout' = samplesToBytes(cview, host)
    /\ cphase' = "encoded"
    /\ UNCHANGED <<utilVars, signalVars>>
    /\ UNCHANGED <<host, fmtVars, cfmt, cbuf, cview, handleVars>>

----------------------------------------------------------------------------
(* Stream handles *)

NoCall == [op |-> "none", ret |-> "none"]
Call(op, ret) == [op |-> op, ret |-> ret]

HandleIdle ==
    /\ kind = "none"
    /\ phase = "idle"
    /\ format = <<>>
    /\ channels = 0
    /\ samplerate = 0
    /\ buffer = NoBytes
    /\ cmd = "nil"
    /\ pipe = "nil"
    /\ ended = FALSE
    /\ proc = "none"
    /\ stream = <<>>
    /\ total = 0
    /\ written = <<>>
    /\ spawned = 0
    /\ listeners = 0
    /\ ioCalled = FALSE
    /\ last = NoCall
    /\ delivered = <<>>
    /\ payload = NoView
    /\ closed = FALSE

\* Field bps: bits per sample, parsed from the format by the constructor.
bps == bitsPerSample(format)
\* bps/8*channels, the frame size SetBuffer checks against.
FrameBytes == (bps \div 8) * channels

\* Tokens a caller passes as Options.Format / format: the short forms of every
\* kind and width, the empty string, and two that normalization must reject.
OptionTokens ==
    {k \o w : k \in {<<"u">>, <<"s">>, <<"f">>}, w \in Widths}
        \cup {<<>>, alaw, <<"s", "1", "6", "l", "e">>}

\* Tokens the writers are constructed with.
WriterTokens == {<<>>, <<"u", "8">>, <<"s", "1", "6">>, <<"f", "3", "2">>, alaw}

\* Sample rates a handle is configured with, in Hz (scaled down: the rate only
\* sizes the buffer that lazy start allocates).
SampleRates == {1, 2}

\* What exec.Cmd does when a handle starts its subprocess: StdoutPipe/StdinPipe
\* fails, Start fails (and closes the pipe's descriptors), or the process runs.
LaunchOutcomes == {"ok", "pipeErr", "startErr"}

\* The format a constructor stores: an empty Options.Format means s16 (the
\* readers and the writer); NewPlayer normalizes its argument as given.
StoredFormat(k, token) ==
    IF token = <<>> /\ k # "Player"
    THEN createFormat(<<"s", "1", "6">>, host)
    ELSE createFormat(token, host)

\* A bug the constructors could have: every handle started when constructed.
StartsInConstructorAll(k) == TRUE
\* Which constructor creates and starts its command: only NewPlayer does.
StartsInConstructor(k) == k = "Player"

\* A bug cleanup could have: two channels registered.
NotifiedTwice(n) == n + 2

\* cleanup(): signal.Notify(c, os.Interrupt, syscall.SIGTERM) registers one
\* more listener, for which one goroutine waits.
Notified(n) == n + 1

\* NewAudio/NewAudioStreams, NewMicrophone, NewAudioWriter: validate the format
\* and fill in the fields; no command is created.  NewPlayer: validate, then
\* create the ffplay command, its stdin pipe, start it and register the listener.
New(token, ch, rate, outcome) ==
    /\ phase = "new"
    /\ ~StartsInConstructor(kind) => outcome = "ok"  \* no launch: nothing to choose
    /\ LET f == StoredFormat(kind, token)
           bad == IF kind = "AudioWriter" /\ token = <<>> THEN FALSE
                  ELSE checkFormat(f) # "nil"
       IN  IF bad \/ (StartsInConstructor(kind) /\ outcome # "ok")
           THEN /\ phase' = "rejected"
                /\ last' = Call("New", "error")
                /\ UNCHANGED <<format, channels, samplerate, cmd, pipe, proc,
                               spawned, listeners>>
           ELSE /\ phase' = "ready"
                /\ format' = f
                /\ channels' = ch
                /\ samplerate' = rate
                /\ last' = Call("New", "nil")
                /\ IF StartsInConstructor(kind)
                   THEN /\ cmd' = "set"
                        /\ pipe' = "open"
                        /\ proc' = "running"
                        /\ spawned' = spawned + 1
                        /\ listeners' = Notified(listeners)
                   ELSE UNCHANGED <<cmd, pipe, proc, spawned, listeners>>
    /\ UNCHANGED <<delivered, payload, closed, utilVars, signalVars>>
    /\ UNCHANGED <<host, fmtVars, codecVars, kind, buffer, ended, stream, total,
                   written, ioCalled>>

\* A bug SetBuffer could have: the length checked against the sample size only.
MisalignedPerSample(len, bits, ch) == len % (bits \div 8) # 0

\* The test of SetBuffer: len(buffer)%(bps/8*channels) != 0.
Misaligned(len, bits, ch) == len % ((bits \div 8) * ch) # 0

\* Buffers a caller passes to SetBuffer: nil, or make([]byte, n).
CallerBuffers ==
    {NoBytes} \cup {[nil |-> FALSE, bytes |-> [i \in 1..n |-> 0]] : n \in 0..MaxBuf}

\* Audio.SetBuffer, Microphone.SetBuffer.
SetBuffer(b) ==
    /\ phase = "ready"
    /\ kind \in {"Audio", "Microphone"}
    /\ IF Misaligned(Len(b.bytes), bps, channels)
       THEN /\ last' = Call("SetBuffer", "error")
            /\ UNCHANGED buffer
       ELSE /\ buffer' = b
            /\ last' = Call("SetBuffer", "nil")
    /\ UNCHANGED <<delivered, payload, closed, utilVars, signalVars>>
    /\ UNCHANGED <<host, fmtVars, codecVars, configVars, phase, cmd, pipe, ended,
                   proc, stream, written, spawned, listeners, ioCalled>>

\* A bug init could have: the buffer sized for one channel.
AllocSizeMono == (samplerate * bps) \div 8
\* make([]byte, samplerate*channels*bps/8)
AllocSize == (samplerate * channels * bps) \div 8

\* A bug init could have: the one-second buffer allocated over the caller's.
BufferAfterInitAlways(b) == [nil |-> FALSE, bytes |-> [i \in 1..AllocSize |-> 0]]
\* The buffer after init: allocated if it was nil.
BufferAfterInit(b) ==
    IF b.nil THEN [nil |-> FALSE, bytes |-> [i \in 1..AllocSize |-> 0]] ELSE b

\* io.ReadFull(pipe, buf) on an open pipe with `avail` bytes to come: the number
\* of bytes read, and whether it returned an error (EOF, ErrUnexpectedEOF).
ReadFullCount(want, avail) == IF avail < want THEN avail ELSE want
ReadFullErr(want, avail) == avail < want

\* Close() on a pipe field: a nil pipe is skipped.
ClosedPipe(p) == IF p = "nil" THEN "nil" ELSE "closed"
\* cmd.Wait(): reaps a running process; an error (ignored) otherwise.
WaitedProc(pr) == IF pr = "running" THEN "waited" ELSE pr
\* The pipe field after init's StdoutPipe/StdinPipe and Start.
PipeAfterInit(outcome) ==
    CASE outcome = "ok" -> "open"
      [] outcome = "pipeErr" -> "nil"
      [] outcome = "startErr" -> "closed"

\* A bug Audio.Read could have: the buffer not shortened after a short read.
ShrinkKeep(bytes, n) == bytes
\* audio.buffer = audio.buffer[:n]
Shrink(bytes, n) == SubSeq(bytes, 1, n)

\* A bug Audio.Read could have: init called on every Read until the handle ends.
NeedsInitAlways(c) == TRUE
\* The lazy-start test of Read and Write: cmd == nil.
NeedsInit(c) == c = "nil"

\* Audio.Read, with Audio.init and the Close it calls at the end of the stream.
AudioRead(outcome) ==
    /\ phase = "ready"
    /\ kind = "Audio"
    /\ (ended \/ ~NeedsInit(cmd)) => outcome = "ok"  \* no launch: nothing to choose
    /\ ioCalled' = TRUE
    /\ IF ended
       THEN /\ last' = Call("Read", "false")
            /\ UNCHANGED <<phase, buffer, cmd, pipe, ended, proc, stream, spawned,
                           listeners, delivered>>
       ELSE IF NeedsInit(cmd) /\ outcome # "ok"
       THEN \* init returned an error: Read returns false
            /\ cmd' = "set"
            /\ pipe' = PipeAfterInit(outcome)
            /\ listeners' = Notified(listeners)
            /\ last' = Call("Read", "false")
            /\ UNCHANGED <<phase, buffer, ended, proc, stream, spawned, delivered>>
       ELSE LET starting == NeedsInit(cmd)
                pipe1 == IF starting THEN PipeAfterInit(outcome) ELSE pipe
                proc1 == IF starting THEN "running" ELSE proc
                buf1 == IF starting THEN BufferAfterInit(buffer) ELSE buffer
                want == Len(buf1.bytes)
                avail == IF pipe1 = "open" THEN Len(stream) ELSE 0
                n == ReadFullCount(want, avail)
                err == want > 0 /\ (pipe1 # "open" \/ ReadFullErr(want, avail))
                filled == SubSeq(stream, 1, n) \o SubSeq(buf1.bytes, n + 1, want)
            IN  IF want > 0 /\ pipe1 = "nil"
                THEN \* Read on a nil io.ReadCloser
                     /\ phase' = "panicked"
                     /\ last' = Call("Read", "panic")
                     /\ UNCHANGED <<buffer, cmd, pipe, ended, proc, stream, spawned,
                                    listeners, delivered>>
                ELSE /\ cmd' = "set"
                     /\ spawned' = IF starting THEN spawned + 1 ELSE spawned
                     /\ listeners' = IF starting THEN Notified(listeners) ELSE listeners
                     /\ stream' = SubSeq(stream, n + 1, Len(stream))
                     /\ IF err
                        THEN /\ buffer' = [nil |-> buf1.nil, bytes |-> Shrink(filled, n)]
                             /\ ended' = TRUE
                             /\ pipe' = ClosedPipe(pipe1)
                             /\ proc' = WaitedProc(proc1)
                        ELSE /\ buffer' = [nil |-> buf1.nil, bytes |-> filled]
                             /\ ended' = ended
                             /\ pipe' = pipe1
                             /\ proc' = proc1
                     /\ last' = Call("Read", IF n > 0 THEN "true" ELSE "false")
                     /\ delivered' = IF n > 0 THEN delivered \o buffer'.bytes
                                     ELSE delivered
                     /\ UNCHANGED phase
    /\ UNCHANGED <<payload, closed, utilVars, signalVars>>
    /\ UNCHANGED <<host, fmtVars, codecVars, configVars, written>>

\* Audio.Samples, Microphone.Samples
Samples == bytesToSamples(buffer.bytes, Len(buffer.bytes) \div (bps \div 8), format, host)

\* A bug Close could have: signal.Stop, the listener taken away.
StoppedListeners(n) == 0

\* Close leaves the channel registered with signal.Notify as it is: nothing
\* in the program calls signal.Stop.
KeptListeners(n) == n

\* Audio.Close
AudioClose ==
    /\ phase = "ready"
    /\ kind = "Audio"
    /\ ended' = TRUE
    /\ pipe' = ClosedPipe(pipe)
    /\ proc' = IF cmd # "nil" THEN WaitedProc(proc) ELSE proc
    /\ last' = Call("Close", "none")
    /\ closed' = TRUE
    /\ UNCHANGED <<delivered, payload, utilVars, signalVars>>
    /\ listeners' = KeptListeners(listeners)
    /\ UNCHANGED <<host, fmtVars, codecVars, configVars, phase, buffer, cmd, stream,
                   written, spawned, ioCalled>>

\* Microphone.Read, with Microphone.init.  The loop ignores the error of
\* pipe.Read, so it never leaves once the pipe gives no more bytes: "hung".
MicRead(outcome) ==
    /\ phase = "ready"
    /\ kind = "Microphone"
    /\ ~NeedsInit(cmd) => outcome = "ok"  \* no launch: nothing to choose
    /\ ioCalled' = TRUE
    /\ IF NeedsInit(cmd) /\ outcome # "ok"
       THEN /\ cmd' = "set"
            /\ pipe' = PipeAfterInit(outcome)
            /\ listeners' = Notified(listeners)
            /\ last' = Call("Read", "false")
            /\ UNCHANGED <<phase, buffer, proc, stream, spawned>>
       ELSE LET starting == NeedsInit(cmd)
                pipe1 == IF starting THEN PipeAfterInit(outcome) ELSE pipe
                proc1 == IF starting THEN "running" ELSE proc
                buf1 == IF starting THEN BufferAfterInit(buffer) ELSE buffer
                want == Len(buf1.bytes)
                avail == IF pipe1 = "open" THEN Len(stream) ELSE 0
                n == ReadFullCount(want, avail)
                filled == SubSeq(stream, 1, n) \o SubSeq(buf1.bytes, n + 1, want)
            IN  IF want > 0 /\ pipe1 = "nil"
                THEN \* dereference of the nil *io.ReadCloser
                     /\ phase' = "panicked"
                     /\ last' = Call("Read", "panic")
                     /\ UNCHANGED <<buffer, cmd, pipe, proc, stream, spawned, listeners>>
                ELSE /\ cmd' = "set"
                     /\ pipe' = pipe1
                     /\ proc' = proc1
                     /\ spawned' = IF starting THEN spawned + 1 ELSE spawned
                     /\ listeners' = IF starting THEN Notified(listeners) ELSE listeners
                     /\ stream' = SubSeq(stream, n + 1, Len(stream))
                     /\ buffer' = [nil |-> buf1.nil, bytes |-> filled]
                     /\ IF n < want
                        THEN /\ phase' = "hung"
                             /\ last' = Call("Read", "none")
                        ELSE /\ phase' = phase
                             /\ last' = Call("Read", "true")
    /\ UNCHANGED <<delivered, payload, closed, utilVars, signalVars>>
    /\ UNCHANGED <<host, fmtVars, codecVars, configVars, ended, written>>

\* Microphone.Close: closes the pipe and kills cmd.Process (nil when the process
\* was never started).
MicClose ==
    /\ phase = "ready"
    /\ kind = "Microphone"
    /\ pipe' = ClosedPipe(pipe)
    /\ IF cmd # "nil" /\ proc = "none"
       THEN /\ phase' = "panicked"
            /\ last' = Call("Close", "panic")
            /\ UNCHANGED proc
       ELSE /\ proc' = IF cmd # "nil" THEN "killed" ELSE proc
            /\ last' = Call("Close", "none")
            /\ UNCHANGED phase
    /\ closed' = TRUE
    /\ UNCHANGED <<delivered, payload, utilVars, signalVars>>
    /\ listeners' = KeptListeners(listeners)
    /\ UNCHANGED <<host, fmtVars, codecVars, configVars, buffer, cmd, ended, stream,
                   written, spawned, ioCalled>>

\* Element types of the payloads a caller writes; "string" is none of the eight.
PayloadTypes == {"uint8", "int16", "int32", "string"}

\* A payload of n samples whose bytes continue the pattern after those written.
Payload(type, n) ==
    LET w == IF TypeWidth(type) = 0 THEN 1 ELSE TypeWidth(type) IN
    [type |-> type,
     elems |-> [i \in 1..n |->
                  NativeValue([j \in 1..w |-> ByteAt(0, Len(written) + (i - 1) * w + j)],
                              host)]]

\* The write loop of Write and Play on an open pipe: k bytes are accepted before
\* the pipe fails (k = len: no failure).
WriteLoopRet(len, k) == IF k = len THEN "nil" ELSE "error"

\* A bug the loop could have: pipe.Write(buffer) instead of buffer[total:].
RECURSIVE WriteLoopNoAdvance(_, _, _, _)
WriteLoopNoAdvance(data, done, chunk, k) ==
    IF done >= Len(data) \/ done >= k THEN <<>>
    ELSE LET left == IF Len(data) < k THEN Len(data) - done ELSE k - done
             n == IF chunk < left THEN chunk ELSE left
         IN  SubSeq(data, 1, n) \o WriteLoopNoAdvance(data, done + n, chunk, k)

\* The bytes the loop hands to the pipe, in order:
\*   for total < len(buffer) { n, err := pipe.Write(buffer[total:]); ... total += n }
\* where each pipe.Write accepts at most `chunk` bytes and the pipe fails once
\* it has accepted k bytes; `done` is the loop's total.
RECURSIVE WriteLoop(_, _, _, _)
WriteLoop(data, done, chunk, k) ==
    IF done >= Len(data) \/ done >= k THEN <<>>
    ELSE LET left == IF Len(data) < k THEN Len(data) - done ELSE k - done
             n == IF chunk < left THEN chunk ELSE left
         IN  SubSeq(data, done + 1, done + n) \o WriteLoop(data, done + n, chunk, k)

\* AudioWriter.Write, with AudioWriter.init.
WriterWrite(samples, outcome, chunk, k) ==
    /\ phase = "ready"
    /\ kind = "AudioWriter"
    /\ ~NeedsInit(cmd) => outcome = "ok"  \* no launch: nothing to choose
    /\ ioCalled' = TRUE
    /\ LET data == samplesToBytes(samples, host)
           len == Len(data.bytes)
       IN  /\ Len(written) + len <= MaxWritten
           /\ k <= len
           /\ k = 0 => chunk = 1  \* no byte accepted: nothing to choose
           /\ IF data.nil
              THEN /\ k = 0
                   /\ last' = Call("Write", "error")
                   /\ UNCHANGED <<phase, cmd, pipe, proc, written, spawned, listeners>>
              ELSE IF NeedsInit(cmd) /\ outcome # "ok"
              THEN /\ k = 0
                   /\ cmd' = "set"
                   /\ pipe' = PipeAfterInit(outcome)
                   /\ listeners' = Notified(listeners)
                   /\ last' = Call("Write", "error")
                   /\ UNCHANGED <<phase, proc, written, spawned>>
              ELSE LET starting == NeedsInit(cmd)
                       pipe1 == IF starting THEN PipeAfterInit(outcome) ELSE pipe
                   IN  IF len > 0 /\ pipe1 = "nil"
                       THEN /\ k = 0
                            /\ phase' = "panicked"
                            /\ last' = Call("Write", "panic")
                            /\ UNCHANGED <<cmd, pipe, proc, written, spawned, listeners>>
                       ELSE /\ pipe1 = "closed" => k = 0
                            /\ cmd' = "set"
                            /\ pipe' = pipe1
                            /\ proc' = IF starting THEN "running" ELSE proc
                            /\ spawned' = IF starting THEN spawned + 1 ELSE spawned
                            /\ listeners' = IF starting THEN Notified(listeners) ELSE listeners
                            /\ written' = written \o WriteLoop(data.bytes, 0, chunk, k)
                            /\ last' = Call("Write", WriteLoopRet(len, k))
                            /\ UNCHANGED phase
    /\ payload' = samples
    /\ UNCHANGED <<delivered, closed, utilVars, signalVars>>
    /\ UNCHANGED <<host, fmtVars, codecVars, configVars, buffer, ended, stream>>

\* Player.Play
PlayerPlay(samples, chunk, k) ==
    /\ phase = "ready"
    /\ kind = "Player"
    /\ ioCalled' = TRUE
    /\ LET data == samplesToBytes(samples, host)
           len == Len(data.bytes)
       IN  /\ Len(written) + len <= MaxWritten
           /\ k <= len
           /\ k = 0 => chunk = 1  \* no byte accepted: nothing to choose
           /\ IF data.nil
              THEN /\ k = 0
                   /\ last' = Call("Play", "error")
                   /\ UNCHANGED written
              ELSE /\ pipe = "closed" => k = 0
                   /\ written' = written \o WriteLoop(data.bytes, 0, chunk, k)
                   /\ last' = Call("Play", WriteLoopRet(len, k))
    /\ payload' = samples
    /\ UNCHANGED <<delivered, closed, utilVars, signalVars>>
    /\ UNCHANGED <<host, fmtVars, codecVars, configVars, phase, buffer, cmd, pipe,
                   ended, proc, stream, spawned, listeners>>

\* AudioWriter.Close, Player.Close
WriterClose ==
    /\ phase = "ready"
    /\ kind \in {"AudioWriter", "Player"}
    /\ pipe' = ClosedPipe(pipe)
    /\ proc' = IF cmd # "nil" THEN WaitedProc(proc) ELSE proc
    /\ last' = Call("Close", "none")
    /\ closed' = TRUE
    /\ UNCHANGED <<delivered, payload, utilVars, signalVars>>
    /\ listeners' = KeptListeners(listeners)
    /\ UNCHANGED <<host, fmtVars, codecVars, configVars, phase, buffer, cmd, ended,
                   stream, written, spawned, ioCalled>>

----------------------------------------------------------------------------
(* Utilities *)

NoOutput == [op |-> "none", val |-> <<>>]

UtilIdle ==
    /\ arg = <<>>
    /\ res = NoOutput

\* Numbers the program holds as float64 are kept in thousandths: 1032 is 1.032.
\* The value of a string of decimal digits.
RECURSIVE DecVal(_)
DecVal(s) ==
    IF s = <<>> THEN 0 ELSE 10 * DecVal(SubSeq(s, 1, Len(s) - 1)) + DigitVal(s[Len(s)])

AllDigits(s) == \A i \in 1..Len(s) : s[i] \in Digits

\* Index of the first "." of s, or 0.
RECURSIVE DotAt(_, _)
DotAt(s, i) ==
    IF i > Len(s) THEN 0 ELSE IF s[i] = "." THEN i ELSE DotAt(s, i + 1)

\* parse: strconv.ParseFloat(data, 64), 0 when it fails.  Covers the decimal
\* forms ffprobe prints, with at most three digits after the point; the result
\* is in thousandths.
parse(data) ==
    LET d == DotAt(data, 1)
        ip == IF d = 0 THEN data ELSE SubSeq(data, 1, d - 1)
        fp == IF d = 0 THEN <<>> ELSE SubSeq(data, d + 1, Len(data))
        fp3 == fp \o SubSeq(<<"0", "0", "0">>, 1, 3 - Len(fp))
    IN  IF ip \o fp = <<>> \/ ~AllDigits(ip) \/ ~AllDigits(fp) \/ Len(fp) > 3
        THEN 0
        ELSE 1000 * DecVal(ip) + DecVal(fp3)

\* int(parse(data))
parseInt(data) == parse(data) \div 1000

\* The largest a with 2^a <= ms/1000 (the binary exponent of the float64
\* nearest ms/1000), for ms > 0.
RECURSIVE ExponentUp(_, _)
ExponentUp(ms, d) == IF ms >= 2 * d THEN 1 + ExponentUp(ms, 2 * d) ELSE 0
RECURSIVE ExponentDown(_)
ExponentDown(ms) == IF ms < 1000 THEN 1 + ExponentDown(2 * ms) ELSE 0
Exponent(ms) == IF ms >= 1000 THEN ExponentUp(ms, 1000) ELSE 0 - ExponentDown(ms)

\* floor(log2(n)) for n > 0, and 2^e for e >= 0.
RECURSIVE Log2(_)
Log2(n) == IF n < 2 THEN 0 ELSE 1 + Log2(n \div 2)
RECURSIVE Pow2(_)
Pow2(e) == IF e <= 0 THEN 1 ELSE 2 * Pow2(e - 1)

\* (ms * 2^k) mod 1000
RECURSIVE ScaledRemainder(_, _)
ScaledRemainder(ms, k) ==
    IF k = 0 THEN ms % 1000 ELSE (2 * ScaledRemainder(ms, k - 1)) % 1000

\* int(math.Ceil(float64(second) * duration)), duration being the float64
\* nearest ms/1000.  When second*ms/1000 is not a whole number the rounding
\* errors are too small to move the ceiling.  When it is a whole number N, the
\* float64 product is above N exactly when the duration was rounded up, by
\* (1000 - r)/1000 units of its last place (r the remainder of ms * 2^(52-a)),
\* and second times that error exceeds half a unit in the last place of N.
CeilProduct(second, ms) ==
    LET p == second * ms
        N == p \div 1000
        a == Exponent(ms)
        r == ScaledRemainder(ms, 52 - a)
        b == Log2(N)
    IN  IF p % 1000 # 0 THEN N + 1
        ELSE IF N = 0 \/ r <= 500 THEN N
        ELSE IF 2 * second * (1000 - r) * Pow2(a) > 1000 * Pow2(b) * Pow2(0 - a)
             THEN N + 1
             ELSE N

\* Audio.Total; the integer division by a zero frame panics.
Total(h) ==
    LET frame == (h.channels * h.bps) \div 8
        second == h.samplerate * frame
        t == CeilProduct(second, h.duration)
    IN  IF frame = 0 THEN [panic |-> TRUE, n |-> 0]
        ELSE [panic |-> FALSE, n |-> t + ((frame - (t % frame)) % frame)]

\* A nil *Options, and &Options{}, which a constructor uses when it is given nil.
NilOptions == [nil |-> TRUE]
ZeroOptions ==
    [nil |-> FALSE, SampleRate |-> 0, Channels |-> 0, Bitrate |-> 0, Format |-> <<>>,
     Codec |-> <<>>]

Resolve(options) == IF options.nil THEN ZeroOptions ELSE options

\* What a constructor returns when it fails: no handle, an error.
Failed == [err |-> "error"]

\* A bug addAudioData could have: the probed rate and channel count skipped.
addAudioDataNoRate(h, data) ==
    [h EXCEPT
       !.bitrate = IF "bit_rate" \in DOMAIN data THEN parseInt(data["bit_rate"]) ELSE @,
       !.duration = IF "duration" \in DOMAIN data THEN parse(data["duration"]) ELSE @,
       !.codec = IF "codec_name" \in DOMAIN data THEN data["codec_name"] ELSE @]

\* Audio.addAudioData: the fields the probe record has keys for.
addAudioData(h, data) ==
    [h EXCEPT
       !.samplerate = IF "sample_rate" \in DOMAIN data
                      THEN parseInt(data["sample_rate"]) ELSE @,
       !.channels = IF "channels" \in DOMAIN data THEN parseInt(data["channels"]) ELSE @,
       !.bitrate = IF "bit_rate" \in DOMAIN data THEN parseInt(data["bit_rate"]) ELSE @,
       !.duration = IF "duration" \in DOMAIN data THEN parse(data["duration"]) ELSE @,
       !.codec = IF "codec_name" \in DOMAIN data THEN data["codec_name"] ELSE @]

\* NewAudioStreams, for one audio stream of the file whose probe record is data.
NewAudioStreams(options, data) ==
    LET o == Resolve(options)
        f == IF o.Format = <<>> THEN createFormat(<<"s", "1", "6">>, host)
             ELSE createFormat(o.Format, host)
        h0 == [err |-> "nil", samplerate |-> 0, channels |-> 0, bitrate |-> 0, duration |-> 0,
               codec |-> <<>>, format |-> f, bps |-> bitsPerSample(f)]
        h1 == addAudioData(h0, data)
        h2 == IF o.SampleRate # 0 THEN [h1 EXCEPT !.samplerate = o.SampleRate] ELSE h1
        h3 == IF o.Channels # 0 THEN [h2 EXCEPT !.channels = o.Channels] ELSE h2
    IN  IF checkFormat(f) # "nil" THEN Failed ELSE h3

DefaultSampleRate == 44100
DefaultChannels == 2

\* A bug NewAudioWriter could have: the rate option also taken as channel count.
NewAudioWriterMixed(options) ==
    LET o == Resolve(options)
        f == IF o.Format = <<>> THEN createFormat(<<"s", "1", "6">>, host)
             ELSE createFormat(o.Format, host)
    IN  IF o.Format # <<>> /\ checkFormat(f) # "nil" THEN Failed
        ELSE [err |-> "nil",
              samplerate |-> IF o.SampleRate # 0 THEN o.SampleRate ELSE DefaultSampleRate,
              channels |-> IF o.SampleRate # 0 THEN o.SampleRate ELSE DefaultChannels,
              bitrate |-> o.Bitrate, codec |-> o.Codec, format |-> f]

\* NewAudioWriter (with ffmpeg installed and no stream file).
NewAudioWriter(options) ==
    LET o == Resolve(options)
        f == IF o.Format = <<>> THEN createFormat(<<"s", "1", "6">>, host)
             ELSE createFormat(o.Format, host)
    IN  IF o.Format # <<>> /\ checkFormat(f) # "nil" THEN Failed
        ELSE [err |-> "nil",
              samplerate |-> IF o.SampleRate # 0 THEN o.SampleRate ELSE DefaultSampleRate,
              channels |-> IF o.Channels # 0 THEN o.Channels ELSE DefaultChannels,
              bitrate |-> o.Bitrate, codec |-> o.Codec, format |-> f]

\* A bug Format could have: the last two characters cut from u8 and s8 too.
FormatAlwaysCut(f) == SubSeq(f, 1, Len(f) - 2)

\* Format(): the token without the endianness suffix createFormat appended.
Format(f) ==
    IF f \in {<<"u", "8">>, <<"s", "8">>} THEN f ELSE SubSeq(f, 1, Len(f) - 2)

\* Options the callers pass, and probe records of the files they open.
OptionValues ==
    {NilOptions} \cup
    [nil : {FALSE}, SampleRate : {0, 100, 4000}, Channels : {0, 1}, Bitrate : {0, 64000},
     Format : {<<>>, <<"s", "8">>, <<"s", "2", "4">>, alaw},
     Codec : {<<>>, <<"a", "a", "c">>}]

Durations ==
    {<<"1", ".", "0", "3", "2">>, <<"1", ".", "0", "9">>, <<"2", ".", "0", "0", "7">>,
     <<"0", ".", "5">>, <<"3">>, <<"N", "/", "A">>}

mp3 == <<"m", "p", "3">>
NotAvailable == <<"N", "/", "A">>

ProbeData ==
    {[sample_rate |-> r, channels |-> c, bit_rate |-> b, duration |-> d,
      codec_name |-> mp3] :
        r \in {<<"4", "8", "0", "0", "0">>, <<"8", "0", "0", "0">>},
        c \in {<<"2">>, <<"1">>},
        b \in {<<"1", "2", "8", "0", "0", "0">>, NotAvailable},
        d \in Durations}
        \cup {[codec_name |-> mp3]}

\* The constructors with the tools they run, in order.  A run of a tool is
\* [tool, args]; what a constructor returns is [err, handles, tools].
Ran(tool, args) == [tool |-> tool, args |-> args]

\* installed(program): program -version
Version(program) == Ran(program, "-version")

\* What a constructor returns with an error: no handle.
Refused(err, tools) == [err |-> err, handles |-> <<>>, tools |-> tools]

\* The format a reader's constructor stores: createFormat of Options.Format,
\* of "s16" when that is empty.
OptionFormat(o) ==
    IF o.Format = <<>> THEN createFormat(<<"s", "1", "6">>, host)
    ELSE createFormat(o.Format, host)

\* The stream types NewAudioStreams probes after the audio streams.
OtherTypes == <<"v", "s", "d", "t">>

\* A bug the loop over "vsdt" could have: only the video probe looked at.
FirstStreamVideoOnly(probe) == IF probe["v"] # <<>> THEN 1 ELSE 0

\* The loop over "vsdt": the place of the first type whose probe is not
\* empty, where the loop breaks, or 0.
FirstStream(probe) ==
    IF \E i \in 1..Len(OtherTypes) : probe[OtherTypes[i]] # <<>>
    THEN CHOOSE i \in 1..Len(OtherTypes) :
             /\ probe[OtherTypes[i]] # <<>>
             /\ \A j \in 1..(i - 1) : probe[OtherTypes[j]] = <<>>
    ELSE 0

\* The probes the loop runs: up to the break, or all four.
OtherProbes(probe) ==
    LET hit == FirstStream(probe)
        n == IF hit = 0 THEN Len(OtherTypes) ELSE hit
    IN  [i \in 1..n |-> Ran("ffprobe", OtherTypes[i])]

\* NewAudioStreams(filename, options); present: the file exists; probe: what
\* ffprobe prints for each stream type, a list of records.
NewAudioStreamsRun(present, options, probe) ==
    LET o == Resolve(options)
        f == OptionFormat(o)
        first == <<Version("ffmpeg"), Version("ffprobe"), Ran("ffprobe", "a")>>
    IN  IF ~present THEN Refused("file does not exist", <<>>)
        ELSE IF probe["a"] = <<>> THEN Refused("no audio data found", first)
        ELSE IF checkFormat(f) # "nil" THEN Refused("format", first)
        ELSE [err |-> "nil",
              handles |-> [i \in 1..Len(probe["a"]) |->
                             [stream |-> i - 1,
                              hasstreams |-> FirstStream(probe) # 0,
                              fields |-> NewAudioStreams(options, probe["a"][i])]],
              tools |-> first \o OtherProbes(probe)]

\* The operating systems NewMicrophone tells apart (runtime.GOOS).
Systems == {"linux", "darwin", "windows", "plan9"}

\* NewMicrophone(stream, options); devices: how many audio devices
\* getDevicesWindows finds.
NewMicrophoneRun(goos, index, options, devices) ==
    LET o == Resolve(options)
        f == OptionFormat(o)
        listed == IF goos = "windows" THEN <<Ran("ffmpeg", "-list_devices")>> ELSE <<>>
        first == <<Version("ffmpeg")>> \o listed
        all == first \o <<Ran("ffmpeg", "-i device")>>
    IN  IF goos \notin {"linux", "darwin", "windows"}
        THEN Refused("unsupported OS", <<Version("ffmpeg")>>)
        ELSE IF goos = "windows" /\ (index < 0 \/ index >= devices)
        THEN Refused("could not find device", first)
        ELSE IF checkFormat(f) # "nil" THEN Refused("format", all)
        ELSE [err |-> "nil",
              handles |-> <<[stream |-> index, hasstreams |-> FALSE,
                             fields |-> [format |-> f, bps |-> bitsPerSample(f)]]>>,
              tools |-> all]

\* NewAudioWriter(filename, options); streamFile: "" (no Options.StreamFile),
\* "present" or "missing".
NewAudioWriterRun(options, streamFile) ==
    LET w == NewAudioWriter(options) IN
    IF w.err # "nil" THEN Refused("format", <<Version("ffmpeg")>>)
    ELSE IF streamFile = "missing"
    THEN Refused("file does not exist", <<Version("ffmpeg")>>)
    ELSE [err |-> "nil",
          handles |-> <<[stream |-> 0, hasstreams |-> FALSE, fields |-> w]>>,
          tools |-> <<Version("ffmpeg")>>]

\* NewPlayer(channels, samplerate, format), ffplay starting without an error.
NewPlayerRun(token) ==
    LET f == createFormat(token, host) IN
    IF checkFormat(f) # "nil" THEN Refused("format", <<Version("ffplay")>>)
    ELSE [err |-> "nil",
          handles |-> <<[stream |-> 0, hasstreams |-> FALSE,
                         fields |-> [format |-> f, bps |-> bitsPerSample(f)]]>>,
          tools |-> <<Version("ffplay"), Ran("ffplay", "-i -")>>]

\* The constructor named in arg, applied.
NewRun ==
    CASE arg.fn = "NewAudioStreams" ->
             NewAudioStreamsRun(arg.present, arg.options, arg.probe)
      [] arg.fn = "NewMicrophone" ->
             NewMicrophoneRun(arg.goos, arg.index, arg.options, arg.devices)
      [] arg.fn = "NewAudioWriter" -> NewAudioWriterRun(arg.options, arg.streamFile)
      [] arg.fn = "NewPlayer" -> NewPlayerRun(arg.options.Format)

\* A constructor is called.
NewRunOp ==
    /\ arg.fn \in {"NewAudioStreams", "NewMicrophone", "NewAudioWriter", "NewPlayer"}
    /\ res.op = "none"
    /\ res' = [op |-> arg.fn, val |-> NewRun]
    /\ UNCHANGED <<host, fmtVars, codecVars, handleVars, arg, signalVars>>

\* Stream(), HasStreams() on the handles the constructor returned: the
\* answers, handle by handle.
AccessorsOp ==
    /\ res.op = "NewAudioStreams"
    /\ res.val.err = "nil"
    /\ res' = [op |-> "Stream", val |-> res.val,
               streams |-> [i \in 1..Len(res.val.handles) |-> res.val.handles[i].stream],
               hasstreams |-> [i \in 1..Len(res.val.handles) |->
                                  res.val.handles[i].hasstreams]]
    /\ UNCHANGED <<host, fmtVars, codecVars, handleVars, arg, signalVars>>

\* NewAudio(filename, options) on a file with one audio stream.
NewAudioOp ==
    /\ arg.fn = "NewAudio"
    /\ res.op = "none"
    /\ res' = [op |-> "NewAudio", val |-> NewAudioStreams(arg.options, arg.data)]
    /\ UNCHANGED <<host, fmtVars, codecVars, handleVars, arg, signalVars>>

\* NewAudioWriter(filename, options)
NewAudioWriterOp ==
    /\ arg.fn = "NewAudioWriter"
    /\ res.op = "none"
    /\ res' = [op |-> "NewAudioWriter", val |-> NewAudioWriter(arg.options)]
    /\ UNCHANGED <<host, fmtVars, codecVars, handleVars, arg, signalVars>>

\* audio.Total() on the handle NewAudio returned.
TotalOp ==
    /\ res.op = "NewAudio"
    /\ res.val.err = "nil"
    /\ res' = [op |-> "Total", val |-> res.val, total |-> Total(res.val)]
    /\ UNCHANGED <<host, fmtVars, codecVars, handleVars, arg, signalVars>>

----------------------------------------------------------------------------
(* Parsing the output of ffprobe and ffmpeg *)

\* strings.Index for a one-character separator: its first position, 0 if none.
IndexFrom(s, c, i) ==
    IF \E j \in i..Len(s) : s[j] = c
    THEN CHOOSE j \in i..Len(s) : s[j] = c /\ \A k \in i..(j - 1) : s[k] # c
    ELSE 0

\* strings.Contains for a one-character substring.
Contains(s, c) == IndexFrom(s, c, 1) # 0

\* strings.Split for a one-character separator: one more piece than separators.
RECURSIVE Split(_, _)
Split(s, sep) ==
    LET i == IndexFrom(s, sep, 1)
    IN  IF i = 0 THEN <<s>>
        ELSE <<SubSeq(s, 1, i - 1)>> \o Split(SubSeq(s, i + 1, Len(s)), sep)

WhiteSpace == {" ", "\n", "\r", "\t"}

\* len(strings.TrimSpace(s)) > 0
NotBlank(s) == \E i \in 1..Len(s) : s[i] \notin WhiteSpace

\* A bug the map update could have: a later value replacing the stored one.
putLast(data, key, value) == (key :> value) @@ data

\* if _, ok := data[key]; !ok { data[key] = value }
putFirst(data, key, value) ==
    IF key \in DOMAIN data THEN data ELSE data @@ (key :> value)

\* The loop of ffprobe over the fields of one record, data being the map so far.
RECURSIVE parseFields(_, _)
parseFields(fields, data) ==
    IF fields = <<>> THEN data
    ELSE LET line == Head(fields)
             keyValue == Split(line, "=")
         IN  parseFields(Tail(fields),
                         IF Contains(line, "=")
                         THEN putFirst(data, keyValue[1], keyValue[2])
                         ELSE data)

\* make(map[string]string)
EmptyMap == [k \in {} |-> <<>>]

\* parseFFprobe: the map of one record.
parseFFprobe(record) == parseFields(Split(record, "|"), EmptyMap)

\* A bug ffprobe could have: a map made for a blank line too.
StreamsAll(metadata) == Split(metadata, "\n")

\* The records of the metadata: its lines that are not blank.
Streams(metadata) == SelectSeq(Split(metadata, "\n"), NotBlank)

\* ffprobe, from the output of the tool on: one map for each record.
ffprobe(metadata) ==
    LET streams == Streams(metadata)
    IN  [i \in 1..Len(streams) |-> parseFFprobe(streams[i])]

\* Probe output: every text of up to MaxMetadata characters, and the record
\* a=1|b=2|a=3.
MetadataChars == {"a", "b", "1", "2", "=", "|", "\n"}

RECURSIVE TextsUpTo(_, _)
TextsUpTo(alphabet, n) ==
    IF n = 0 THEN {<<>>}
    ELSE LET shorter == TextsUpTo(alphabet, n - 1)
         IN  shorter \cup {Append(t, c) : t \in shorter, c \in alphabet}

Repeated == <<"a", "=", "1", "|", "b", "=", "2", "|", "a", "=", "3">>

\* Outputs with lines of white space only between and around the records.
BlankLined ==
    {<<" ">>, <<" ", "\t", "\n", "\r">>,
     <<"a", "=", "1", "\n", " ", "\t", "\n", "\r", "\n", "b", "=", "2", "\n">>,
     <<"\n", " ", "\n", "b", "=", "2", "\r", "\n", "a", "=", "1">>}

Metadata ==
    TextsUpTo(MetadataChars, MaxMetadata)
        \cup {Repeated, <<"a", "=", "1", "|", "b", "|", "a", "=", "2">>}
        \cup BlankLined

\* ffprobe(filename, "a"), the tool having printed arg.text.
FFprobeOp ==
    /\ arg.fn = "ffprobe"
    /\ res.op = "none"
    /\ res' = [op |-> "ffprobe", streams |-> Streams(arg.text), val |-> ffprobe(arg.text)]
    /\ UNCHANGED <<host, fmtVars, codecVars, handleVars, arg, signalVars>>

\* strings.ToLower, on the letters the texts contain.
UpperCase == <<"A", "B", "C", "D", "E", "F", "G", "H", "I", "J", "K", "L", "M",
               "N", "O", "P", "Q", "R", "S", "T", "U", "V", "W", "X", "Y", "Z">>
LowerCase == <<"a", "b", "c", "d", "e", "f", "g", "h", "i", "j", "k", "l", "m",
               "n", "o", "p", "q", "r", "s", "t", "u", "v", "w", "x", "y", "z">>
ToLowerChar(c) ==
    IF \E i \in 1..26 : UpperCase[i] = c
    THEN LowerCase[CHOOSE i \in 1..26 : UpperCase[i] = c]
    ELSE c
ToLower(s) == [i \in 1..Len(s) |-> ToLowerChar(s[i])]

\* sub occurs in s at position i.
OccursAt(s, sub, i) ==
    /\ i + Len(sub) - 1 <= Len(s)
    /\ \A j \in 1..Len(sub) : s[i + j - 1] = sub[j]

\* strings.Index: the first position of sub in s, 0 for Go's -1.
IndexStr(s, sub, i) ==
    IF \E j \in i..Len(s) : OccursAt(s, sub, j)
    THEN CHOOSE j \in i..Len(s) :
             OccursAt(s, sub, j) /\ \A k \in i..(j - 1) : ~OccursAt(s, sub, k)
    ELSE 0

ContainsStr(s, sub) == IndexStr(s, sub, 1) # 0

\* strings.ReplaceAll(s, "\r\n", "\n")
\* computed on two halves that do not separate a "\r" from its "\n".
RECURSIVE ReplaceCRLF(_)
ReplaceCRLF(s) ==
    IF Len(s) <= 2 THEN IF s = <<"\r", "\n">> THEN <<"\n">> ELSE s
    ELSE LET mid == Len(s) \div 2
             cut == IF s[mid] = "\r" /\ s[mid + 1] = "\n" THEN mid + 1 ELSE mid
         IN  ReplaceCRLF(SubSeq(s, 1, cut)) \o ReplaceCRLF(SubSeq(s, cut + 1, Len(s)))

\* regexp "[^"]+" FindString, without its quotes: the leftmost quote that is
\* followed by one character or more other than a quote and then a quote.
\* <<>> when there is no match (a match is never empty).
QuoteStarts(line) ==
    {i \in 1..Len(line) :
        /\ line[i] = "\""
        /\ IndexFrom(line, "\"", i + 1) > i + 1}
FindQuoted(line) ==
    IF QuoteStarts(line) = {} THEN <<>>
    ELSE LET i == CHOOSE k \in QuoteStarts(line) : \A l \in QuoteStarts(line) : k <= l
         IN  SubSeq(line, i + 1, IndexFrom(line, "\"", i + 1) - 1)

DeviceMarker ==
    <<"d", "i", "r", "e", "c", "t", "s", "h", "o", "w", " ", "a", "u", "d", "i", "o", " ",
      "d", "e", "v", "i", "c", "e">>
AltMarker ==
    <<"a", "l", "t", "e", "r", "n", "a", "t", "i", "v", "e", " ", "n", "a", "m", "e">>

\* A bug parseDevices could have: the text before the marker kept.
SectionWhole(buf) == buf

\* The text from the marker on, the whole text without a marker.
Section(buf) ==
    LET index == IndexStr(ToLower(buf), DeviceMarker, 1)
    IN  IF index # 0 THEN SubSeq(buf, index, Len(buf)) ELSE buf

\* The first loop of parseDevices: [panic, pairs] after the lines.  An
\* alternative name before any device indexes pairs[-1].
RECURSIVE devicePairs(_, _)
devicePairs(lines, pairs) ==
    IF lines = <<>> THEN [panic |-> FALSE, pairs |-> pairs]
    ELSE LET line == Head(lines)
             match == FindQuoted(line)
         IN  IF ContainsStr(ToLower(line), AltMarker)
             THEN IF match = <<>> THEN devicePairs(Tail(lines), pairs)
                  ELSE IF pairs = <<>> THEN [panic |-> TRUE, pairs |-> pairs]
                  ELSE devicePairs(Tail(lines),
                                   [pairs EXCEPT ![Len(pairs)].alt = match])
             ELSE IF match = <<>> THEN devicePairs(Tail(lines), pairs)
                  ELSE devicePairs(Tail(lines),
                                   Append(pairs, [name |-> match, alt |-> <<>>]))

\* contains(list, item)
contains(list, item) == \E i \in 1..Len(list) : list[i] = item

\* A bug the second loop could have: the primary name always taken.
deviceNamePrimary(devices, pair) == pair.name

\* The name a pair adds to the devices so far.
deviceName(devices, pair) ==
    IF contains(devices, pair.name) THEN pair.alt ELSE pair.name

\* The second loop of parseDevices.
RECURSIVE deviceNames(_, _)
deviceNames(pairs, devices) ==
    IF pairs = <<>> THEN devices
    ELSE deviceNames(Tail(pairs), Append(devices, deviceName(devices, Head(pairs))))

\* parseDevices: [panic, pairs, devices]
parseDevices(buf) ==
    LET p == devicePairs(Split(ReplaceCRLF(Section(buf)), "\n"), <<>>)
    IN  [panic |-> p.panic, pairs |-> p.pairs,
         devices |-> IF p.panic THEN <<>> ELSE deviceNames(p.pairs, <<>>)]

\* Lines ffmpeg -list_devices prints, with what each of them is.
Banner ==
    [text |-> <<"f", "f", "m", "p", "e", "g", " ", "v", "e", "r", "s", "i", "o", "n", " ", "N",
                "-", "4", "5", "2", "7", "9">>,
     kind |-> "other", name |-> <<>>]
VideoHeader ==
    [text |-> <<"[", "d", "s", "h", "o", "w", "]", " ", "D", "i", "r", "e", "c", "t", "S", "h",
                "o", "w", " ", "v", "i", "d", "e", "o", " ", "d", "e", "v", "i", "c", "e", "s">>,
     kind |-> "other", name |-> <<>>]
AudioHeader ==
    [text |-> <<"[", "d", "s", "h", "o", "w", "]", " ", "D", "i", "r", "e", "c", "t", "S", "h",
                "o", "w", " ", "a", "u", "d", "i", "o", " ", "d", "e", "v", "i", "c", "e", "s">>,
     kind |-> "marker", name |-> <<>>]
CameraLine ==
    [text |-> <<"[", "d", "s", "h", "o", "w", "]", " ", " ", "\"", "C", "a", "m", "\"">>,
     kind |-> "name", name |-> <<"C", "a", "m">>]
MicLine ==
    [text |-> <<"[", "d", "s", "h", "o", "w", "]", " ", " ", "\"", "M", "i", "c", "\"">>,
     kind |-> "name", name |-> <<"M", "i", "c">>]
AltLine ==
    [text |-> <<"[", "d", "s", "h", "o", "w", "]", " ", " ", " ", "A", "l", "t", "e", "r", "n",
                "a", "t", "i", "v", "e", " ", "n", "a", "m", "e", " ", "\"", "@", "m", "i", "c",
                "\"">>,
     kind |-> "alt", name |-> <<"@", "m", "i", "c">>]

DeviceLines == {Banner, VideoHeader, AudioHeader, CameraLine, MicLine, AltLine}

LineEnds == {<<"\n">>, <<"\r", "\n">>}

\* strings.Join of the texts of the lines.
RECURSIVE JoinLines(_, _)
JoinLines(lines, sep) ==
    IF lines = <<>> THEN <<>>
    ELSE IF Len(lines) = 1 THEN lines[1].text
    ELSE lines[1].text \o sep \o JoinLines(Tail(lines), sep)

RECURSIVE ListingsUpTo(_)
ListingsUpTo(n) ==
    IF n = 0 THEN {<<>>}
    ELSE LET shorter == ListingsUpTo(n - 1)
         IN  shorter \cup {Append(t, l) : t \in shorter, l \in DeviceLines}

\* The listing of the FFmpeg wiki.
WikiSample ==
    <<"f", "f", "m", "p", "e", "g", " ", "v", "e", "r", "s", "i", "o", "n", " ", "N", "-", "4",
      "5", "2", "7", "9", "-", "g", "6", "b", "8", "6", "d", "d", "5", ".", ".", ".", " ", "-",
      "-", "e", "n", "a", "b", "l", "e", "-", "r", "u", "n", "t", "i", "m", "e", "-", "c", "p",
      "u", "d", "e", "t", "e", "c", "t", "\n", " ", " ", "l", "i", "b", "a", "v", "u", "t", "i",
      "l", " ", " ", " ", " ", " ", " ", "5", "1", ".", " ", "7", "4", ".", "1", "0", "0", " ",
      "/", " ", "5", "1", ".", " ", "7", "4", ".", "1", "0", "0", "\n", " ", " ", "l", "i", "b",
      "a", "v", "c", "o", "d", "e", "c", " ", " ", " ", " ", " ", "5", "4", ".", " ", "6", "5",
      ".", "1", "0", "0", " ", "/", " ", "5", "4", ".", " ", "6", "5", ".", "1", "0", "0", "\n",
      " ", " ", "l", "i", "b", "a", "v", "f", "o", "r", "m", "a", "t", " ", " ", " ", " ", "5",
      "4", ".", " ", "3", "1", ".", "1", "0", "0", " ", "/", " ", "5", "4", ".", " ", "3", "1",
      ".", "1", "0", "0", "\n", " ", " ", "l", "i", "b", "a", "v", "d", "e", "v", "i", "c", "e",
      " ", " ", " ", " ", "5", "4", ".", " ", " ", "3", ".", "1", "0", "0", " ", "/", " ", "5",
      "4", ".", " ", " ", "3", ".", "1", "0", "0", "\n", " ", " ", "l", "i", "b", "a", "v", "f",
      "i", "l", "t", "e", "r", " ", " ", " ", " ", " ", "3", ".", " ", "1", "9", ".", "1", "0",
      "2", " ", "/", " ", " ", "3", ".", " ", "1", "9", ".", "1", "0", "2", "\n", " ", " ", "l",
      "i", "b", "s", "w", "s", "c", "a", "l", "e", " ", " ", " ", " ", " ", " ", "2", ".", " ",
      " ", "1", ".", "1", "0", "1", " ", "/", " ", " ", "2", ".", " ", " ", "1", ".", "1", "0",
      "1", "\n", " ", " ", "l", "i", "b", "s", "w", "r", "e", "s", "a", "m", "p", "l", "e", " ",
      " ", " ", "0", ".", " ", "1", "6", ".", "1", "0", "0", " ", "/", " ", " ", "0", ".", " ",
      "1", "6", ".", "1", "0", "0", "\n", "[", "d", "s", "h", "o", "w", " ", "@", " ", "0", "3",
      "A", "C", "F", "5", "8", "0", "]", " ", "D", "i", "r", "e", "c", "t", "S", "h", "o", "w",
      " ", "v", "i", "d", "e", "o", " ", "d", "e", "v", "i", "c", "e", "s", "\n", "[", "d", "s",
      "h", "o", "w", " ", "@", " ", "0", "3", "A", "C", "F", "5", "8", "0", "]", " ", " ", "\"",
      "I", "n", "t", "e", "g", "r", "a", "t", "e", "d", " ", "C", "a", "m", "e", "r", "a", "\"",
      "\n", "[", "d", "s", "h", "o", "w", " ", "@", " ", "0", "3", "A", "C", "F", "5", "8", "0",
      "]", " ", " ", "\"", "s", "c", "r", "e", "e", "n", "-", "c", "a", "p", "t", "u", "r", "e",
      "-", "r", "e", "c", "o", "r", "d", "e", "r", "\"", "\n", "[", "d", "s", "h", "o", "w", " ",
      "@", " ", "0", "3", "A", "C", "F", "5", "8", "0", "]", " ", "D", "i", "r", "e", "c", "t",
      "S", "h", "o", "w", " ", "a", "u", "d", "i", "o", " ", "d", "e", "v", "i", "c", "e", "s",
      "\n", "[", "d", "s", "h", "o", "w", " ", "@", " ", "0", "3", "A", "C", "F", "5", "8", "0",
      "]", " ", " ", "\"", "I", "n", "t", "e", "r", "n", "a", "l", " ", "M", "i", "c", "r", "o",
      "p", "h", "o", "n", "e", " ", "(", "C", "o", "n", "e", "x", "a", "n", "t", " ", "2", "\"",
      "\n", "[", "d", "s", "h", "o", "w", " ", "@", " ", "0", "3", "A", "C", "F", "5", "8", "0",
      "]", " ", " ", "\"", "v", "i", "r", "t", "u", "a", "l", "-", "a", "u", "d", "i", "o", "-",
      "c", "a", "p", "t", "u", "r", "e", "r", "\"", "\n", "d", "u", "m", "m", "y", ":", " ", "I",
      "m", "m", "e", "d", "i", "a", "t", "e", " ", "e", "x", "i", "t", " ", "r", "e", "q", "u",
      "e", "s", "t", "e", "d">>

\* parseDevices(buffer), ffmpeg having printed arg.text.
ParseDevicesOp ==
    /\ arg.fn = "parseDevices"
    /\ res.op = "none"
    /\ res' = [op |-> "parseDevices", val |-> parseDevices(arg.text)]
    /\ UNCHANGED <<host, fmtVars, codecVars, handleVars, arg, signalVars>>

\* The marker parseMicrophoneData looks for, and the words for the channels.
StreamMarker == <<"S", "t", "r", "e", "a", "m", " ", "#">>
HzUnit == <<" ", "H", "z">>
stereo == <<"s", "t", "e", "r", "e", "o">>
mono == <<"m", "o", "n", "o">>

\* A bug parseMicrophoneData could have: the text before the marker kept.
MicSectionWhole(buf) == buf

\* index := strings.Index(buffer, "Stream #"); if index == -1 { index++ };
\* buffer[index:]
MicSection(buf) ==
    LET index == IndexStr(buf, StreamMarker, 1)
    IN  IF index = 0 THEN buf ELSE SubSeq(buf, index, Len(buf))

\* The places where the regular expression \d+ Hz matches: a digit from which
\* digits only lead to " Hz".
HzStarts(buf) ==
    {i \in 1..Len(buf) :
        /\ buf[i] \in Digits
        /\ \E e \in i..Len(buf) :
              /\ \A k \in i..e : buf[k] \in Digits
              /\ OccursAt(buf, HzUnit, e + 1)}

\* regex.FindString(buffer): the leftmost match, <<>> when there is none.
FindHz(buf) ==
    IF HzStarts(buf) = {} THEN <<>>
    ELSE LET i == CHOOSE k \in HzStarts(buf) : \A l \in HzStarts(buf) : k <= l
             e == CHOOSE k \in i..Len(buf) :
                      (\A j \in i..k : buf[j] \in Digits) /\ OccursAt(buf, HzUnit, k + 1)
         IN  SubSeq(buf, i, e + Len(HzUnit))

\* parseMicrophoneData(buffer) on a Microphone whose sample rate is rate:
\* the sample rate and the channels afterwards.
parseMicrophoneData(buf, rate) ==
    LET section == MicSection(buf)
        match == FindHz(section)
    IN  [samplerate |-> IF Len(match) > 0
                        THEN parseInt(SubSeq(match, 1, Len(match) - Len(HzUnit)))
                        ELSE rate,
         channels |-> IF ContainsStr(section, stereo) THEN 2
                      ELSE IF ContainsStr(section, mono) THEN 1
                      ELSE 2]

\* Pieces of what ffmpeg -i device prints, and texts made of them.
MicPieces ==
    {StreamMarker, <<"4", "4", "1", "0", "0", " ", "H", "z", ",", " ">>,
     <<"8", "0", "0", "0", " ", "H", "z", " ">>, <<"s", "t", "e", "r", "e", "o", ",", " ">>,
     <<"m", "o", "n", "o", ",", " ">>, <<"9", "6", " ", "k", "H", "z", " ">>, <<"c", "h", " ", "2">>, HzUnit}

RECURSIVE PiecesUpTo(_)
PiecesUpTo(n) ==
    IF n = 0 THEN {<<>>}
    ELSE LET shorter == PiecesUpTo(n - 1)
         IN  shorter \cup {t \o p : t \in shorter, p \in MicPieces}

\* The text of TestMicrophoneParsing.
MicSample ==
    <<"I", "n", "p", "u", "t", " ", "#", "0", ",", " ", "d", "s", "h", "o", "w", ",", " ",
      "f", "r", "o", "m", " ", "'", "a", "u", "d", "i", "o", "=", "M", "i", "c", "r", "o",
      "p", "h", "o", "n", "e", " ", "A", "r", "r", "a", "y", " ", "(", "R", "e", "a", "l",
      "t", "e", "k", " ", "H", "i", "g", "h", " ", "D", "e", "f", "i", "n", "i", "t", "i",
      "o", "n", " ", "A", "u", "d", "i", "o", "(", "S", "S", "T", ")", ")", "'", ":", "\n",
      "\t", "\t", "D", "u", "r", "a", "t", "i", "o", "n", ":", " ", "N", "/", "A", ",",
      " ", "s", "t", "a", "r", "t", ":", " ", "6", "5", "3", "4", "3", "6", ".", "7", "2",
      "5", "0", "0", "0", ",", " ", "b", "i", "t", "r", "a", "t", "e", ":", " ", "1", "4",
      "1", "1", " ", "k", "b", "/", "s", "\n", "\t", "\t", "S", "t", "r", "e", "a", "m",
      " ", "#", "0", ":", "0", ":", " ", "A", "u", "d", "i", "o", ":", " ", "p", "c", "m",
      "_", "s", "1", "6", "l", "e", ",", " ", "4", "4", "1", "0", "0", " ", "H", "z", ",",
      " ", "s", "t", "e", "r", "e", "o", ",", " ", "s", "1", "6", ",", " ", "1", "4", "1",
      "1", " ", "k", "b", "/", "s">>

\* getMicrophoneData on a new Microphone, ffmpeg having printed arg.text.
ParseMicrophoneOp ==
    /\ arg.fn = "parseMicrophoneData"
    /\ res.op = "none"
    /\ res' = [op |-> "parseMicrophoneData", val |-> parseMicrophoneData(arg.text, 0)]
    /\ UNCHANGED <<host, fmtVars, codecVars, handleVars, arg, signalVars>>

----------------------------------------------------------------------------
(* Signals *)

\* No signal sent, the goroutine of cleanup (if any) waiting on its channel,
\* the host process running.
SignalIdle ==
    /\ sig = "none"
    /\ resp = [at |-> "waiting", shut |-> FALSE]
    /\ exit = "none"

\* The host process runs: its main goroutine neither panicked nor exited (it
\* may be blocked in a call).
Alive == phase \in {"ready", "hung"}

\* SIGINT or SIGTERM arrives at the host process, a handle having registered
\* its channel with signal.Notify: the signal is queued on the channel.
Signal ==
    /\ Alive
    /\ listeners > 0
    /\ sig = "none"
    /\ sig' = "sent"
    /\ UNCHANGED <<host, fmtVars, codecVars, handleVars, utilVars, resp, exit>>

\* The goroutine of cleanup receives from the channel and closes the pipe if the
\* field is not nil; shut records that the pipe was open.
RespondClose ==
    /\ Alive
    /\ sig = "sent"
    /\ resp.at = "waiting"
    /\ pipe' = ClosedPipe(pipe)
    /\ resp' = [at |-> "closed", shut |-> pipe = "open"]
    /\ UNCHANGED <<host, fmtVars, codecVars, configVars, phase, buffer, cmd, ended, proc,
                   stream, total, written, spawned, listeners, ioCalled, last, delivered,
                   payload, closed, utilVars, sig, exit>>

\* A bug the goroutine could have: the subprocess left running.
KilledProcSpared(c, pr) == pr

\* if cmd != nil { cmd.Process.Kill() } on a started process: a running
\* process is killed, Kill on a finished one returns an error nobody reads.
KilledProc(c, pr) == IF c # "nil" /\ pr = "running" THEN "killed" ELSE pr

\* The goroutine kills the subprocess.  cmd.Process is nil when Start never
\* succeeded, and Kill on it panics.
RespondKill ==
    /\ Alive
    /\ resp.at = "closed"
    /\ IF cmd # "nil" /\ proc = "none"
       THEN /\ phase' = "panicked"
            /\ resp' = [resp EXCEPT !.at = "panicked"]
            /\ UNCHANGED proc
       ELSE /\ proc' = KilledProc(cmd, proc)
            /\ resp' = [resp EXCEPT !.at = "killed"]
            /\ UNCHANGED phase
    /\ UNCHANGED <<host, fmtVars, codecVars, configVars, buffer, cmd, pipe, ended, stream,
                   total, written, spawned, listeners, ioCalled, last, delivered, payload,
                   closed, utilVars, sig, exit>>

\* os.Exit(1)
RespondExit ==
    /\ Alive
    /\ resp.at = "killed"
    /\ exit' = "1"
    /\ phase' = "exited"
    /\ resp' = [resp EXCEPT !.at = "done"]
    /\ UNCHANGED <<host, fmtVars, codecVars, configVars, buffer, cmd, pipe, ended, proc,
                   stream, total, written, spawned, listeners, ioCalled, last, delivered,
                   payload, closed, utilVars, sig>>

----------------------------------------------------------------------------
(* Close, step by step, and the subprocess *)

\* A bug Close could have: the pipe left as it is.
PipeLeftOpen(p) == p

\* pipe.Close() in Close: the first thing Close does to the subprocess.
PipeClosedFirst(p) == ClosedPipe(p)

\* Close, up to and including pipe.Close().  Audio.Close sets ended before.
CloseBegin ==
    /\ phase = "ready"
    /\ kind \in {"Audio", "Microphone", "AudioWriter", "Player"}
    /\ phase' = "closing"
    /\ ended' = IF kind = "Audio" THEN TRUE ELSE ended
    /\ pipe' = PipeClosedFirst(pipe)
    /\ last' = Call("Close", "pending")
    /\ closed' = TRUE
    /\ UNCHANGED <<delivered, payload, utilVars, signalVars>>
    /\ UNCHANGED <<host, fmtVars, codecVars, configVars, buffer, cmd, proc, stream,
                   written, spawned, listeners, ioCalled>>

\* The tool ends by itself once its end of the pipe tells it that the other end
\* is closed (end of input for a writer's tool, a broken pipe for a reader's).
ToolExit ==
    /\ proc = "running"
    /\ pipe = "closed"
    /\ proc' = "exited"
    /\ UNCHANGED <<host, fmtVars, codecVars, configVars, phase, buffer, cmd, pipe, ended,
                   stream, written, spawned, listeners, ioCalled, last, delivered,
                   payload, closed, utilVars, signalVars>>

\* cmd.Wait() on a process that ended: it is reaped.  On a command never
\* started, or waited for before, Wait returns an error at once.
ReapedProc(pr) == IF pr = "exited" THEN "waited" ELSE pr

\* Audio.Close, AudioWriter.Close, Player.Close after pipe.Close():
\* if cmd != nil { cmd.Wait() }, which returns once the process has ended.
CloseWait ==
    /\ phase = "closing"
    /\ kind # "Microphone"
    /\ cmd # "nil" => proc # "running"
    /\ proc' = IF cmd # "nil" THEN ReapedProc(proc) ELSE proc
    /\ phase' = "ready"
    /\ last' = Call("Close", "none")
    /\ UNCHANGED <<host, fmtVars, codecVars, configVars, buffer, cmd, pipe, ended,
                   stream, written, spawned, listeners, ioCalled, delivered, payload,
                   closed, utilVars, signalVars>>

\* Microphone.Close after pipe.Close(): if cmd != nil { cmd.Process.Kill() },
\* without a Wait.  cmd.Process is nil when Start never succeeded.
CloseKill ==
    /\ phase = "closing"
    /\ kind = "Microphone"
    /\ IF cmd # "nil" /\ proc = "none"
       THEN /\ phase' = "panicked"
            /\ last' = Call("Close", "panic")
            /\ UNCHANGED proc
       ELSE /\ proc' = KilledProc(cmd, proc)
            /\ phase' = "ready"
            /\ last' = Call("Close", "none")
    /\ UNCHANGED <<host, fmtVars, codecVars, configVars, buffer, cmd, pipe, ended,
                   stream, written, spawned, listeners, ioCalled, delivered, payload,
                   closed, utilVars, signalVars>>

----------------------------------------------------------------------------
(* The lazy start, step by step *)

\* The kinds of handle that start their subprocess in init.
LazyKinds == {"Audio", "Microphone", "AudioWriter"}

\* The caller is inside init, having done the step last.ret.
InInit(step) == last = Call("init", step)

\* The first Read or Write finds cmd == nil and calls init, which begins with
\* cleanup(): the listener is registered and the goroutine started.
LazyCleanup ==
    /\ phase = "ready"
    /\ kind \in LazyKinds
    /\ last.op # "init"
    /\ ~ended
    /\ NeedsInit(cmd)
    /\ listeners' = Notified(listeners)
    /\ last' = Call("init", "cleanup")
    /\ UNCHANGED <<host, fmtVars, codecVars, configVars, phase, buffer, cmd, pipe, ended,
                   proc, stream, written, spawned, ioCalled, delivered, payload,
                   closed, utilVars, signalVars>>

\* cmd := exec.Command(...); audio.cmd = cmd
LazyCommand ==
    /\ phase = "ready"
    /\ InInit("cleanup")
    /\ cmd' = "set"
    /\ last' = Call("init", "cmd")
    /\ UNCHANGED <<host, fmtVars, codecVars, configVars, phase, buffer, pipe, ended,
                   proc, stream, written, spawned, listeners, ioCalled, delivered,
                   payload, closed, utilVars, signalVars>>

\* pipe, err := cmd.StdoutPipe() (StdinPipe for a writer); on an error init
\* returns, otherwise audio.pipe = pipe.
LazyPipe(outcome) ==
    /\ phase = "ready"
    /\ InInit("cmd")
    /\ outcome \in {"ok", "pipeErr"}
    /\ IF outcome = "pipeErr"
       THEN /\ last' = Call("init", "error")
            /\ UNCHANGED pipe
       ELSE /\ last' = Call("init", "pipe")
            /\ pipe' = IF pipe = "nil" THEN "open" ELSE pipe
    /\ UNCHANGED <<host, fmtVars, codecVars, configVars, phase, buffer, cmd, ended,
                   proc, stream, written, spawned, listeners, ioCalled, delivered,
                   payload, closed, utilVars, signalVars>>

\* cmd.Start(): on an error init returns and both ends of the pipe are closed;
\* otherwise the process runs, the buffer is allocated if nil, init returns nil.
LazyStart(outcome) ==
    /\ phase = "ready"
    /\ InInit("pipe")
    /\ outcome \in {"ok", "startErr"}
    /\ IF outcome = "startErr"
       THEN /\ last' = Call("init", "error")
            /\ pipe' = ClosedPipe(pipe)
            /\ UNCHANGED <<proc, spawned, buffer>>
       ELSE /\ last' = Call("init", "nil")
            /\ proc' = "running"
            /\ spawned' = spawned + 1
            /\ buffer' = IF kind = "AudioWriter" THEN buffer ELSE BufferAfterInit(buffer)
            /\ UNCHANGED pipe
    /\ UNCHANGED <<host, fmtVars, codecVars, configVars, phase, cmd, ended, stream,
                   written, listeners, ioCalled, delivered, payload, closed, utilVars,
                   signalVars>>

----------------------------------------------------------------------------
(* Several handles and their signal goroutines *)

\* The handles of one host process.
Handles == 1..MaxHandles

\* A handle before its lazy start: no command, no pipe, no listener.
Unstarted == [pipe |-> "nil", proc |-> "none", at |-> "none"]

\* The handles in res.val, each with its pipe, its subprocess and the place
\* `at` of its goroutine: "none" (no listener), "waiting" (<-c), "woken",
\* "closed" (past pipe.Close), "killed" (past Kill), "done" (called os.Exit).
HandlesIdle ==
    /\ arg = [fn |-> "cleanup"]
    /\ res = [op |-> "handles", val |-> [h \in Handles |-> Unstarted]]

\* A bug the delivery could have: the signal handed to one channel only.
DeliveredToFirst(hs) ==
    LET first == CHOOSE h \in DOMAIN hs :
                     \A g \in DOMAIN hs : hs[g].at = "waiting" => h <= g
    IN  [h \in DOMAIN hs |->
            IF h = first /\ hs[h].at = "waiting" THEN [hs[h] EXCEPT !.at = "woken"]
            ELSE hs[h]]

\* signal.Notify(c, os.Interrupt, syscall.SIGTERM) was called once per started
\* handle, each with a channel of its own: a signal is put on every one of
\* them, which makes every goroutine waiting in <-c runnable.
Delivered(hs) ==
    [h \in DOMAIN hs |->
        IF hs[h].at = "waiting" THEN [hs[h] EXCEPT !.at = "woken"] ELSE hs[h]]

\* The lazy start of handle h, with no error: cleanup() registers the listener
\* and starts the goroutine, then the pipe is made and the process started.
RaceStart(h) ==
    /\ exit = "none"
    /\ res.val[h] = Unstarted
    /\ res' = [res EXCEPT !.val[h] = [pipe |-> "open", proc |-> "running",
                                       at |-> "waiting"]]
    /\ UNCHANGED <<host, fmtVars, codecVars, handleVars, arg, signalVars>>

\* The caller closes the started handle h: pipe.Close(), cmd.Wait().  The
\* listener stays registered.
RaceCallerClose(h) ==
    /\ exit = "none"
    /\ res.val[h].pipe = "open"
    /\ res' = [res EXCEPT !.val[h].pipe = ClosedPipe(@),
                          !.val[h].proc = WaitedProc(@)]
    /\ UNCHANGED <<host, fmtVars, codecVars, handleVars, arg, signalVars>>

\* SIGINT or SIGTERM arrives at the host process.
RaceSignal ==
    /\ exit = "none"
    /\ sig = "none"
    /\ \E h \in Handles : res.val[h].at = "waiting"
    /\ sig' = "sent"
    /\ res' = [res EXCEPT !.val = Delivered(@)]
    /\ UNCHANGED <<host, fmtVars, codecVars, handleVars, arg, resp, exit>>

\* The goroutine of handle h: if pipe != nil { pipe.Close() }
RaceClose(h) ==
    /\ exit = "none"
    /\ res.val[h].at = "woken"
    /\ res' = [res EXCEPT !.val[h].pipe = ClosedPipe(@), !.val[h].at = "closed"]
    /\ UNCHANGED <<host, fmtVars, codecVars, handleVars, arg, signalVars>>

\* The goroutine of handle h: if cmd != nil { cmd.Process.Kill() }
RaceKill(h) ==
    /\ exit = "none"
    /\ res.val[h].at = "closed"
    /\ res' = [res EXCEPT !.val[h].proc = KilledProc("set", @), !.val[h].at = "killed"]
    /\ UNCHANGED <<host, fmtVars, codecVars, handleVars, arg, signalVars>>

\* The goroutine of handle h: os.Exit(1).  The host process is gone, and with
\* it every goroutine; the subprocesses are processes of their own.
RaceExit(h) ==
    /\ exit = "none"
    /\ res.val[h].at = "killed"
    /\ exit' = "1"
    /\ res' = [res EXCEPT !.val[h].at = "done"]
    /\ UNCHANGED <<host, fmtVars, codecVars, handleVars, arg, sig, resp>>

----------------------------------------------------------------------------
(* The loops that read a pipe *)

\* The functions that read a subprocess's pipe.
PipeReaders ==
    {"Audio.Read", "Microphone.Read", "ffprobe", "getDevicesWindows",
     "getMicrophoneData"}
\* The three that read the whole output of a tool run to its end.
Drains == {"ffprobe", "getDevicesWindows", "getMicrophoneData"}

\* How a pipe behaves once its bytes are read: io.EOF on every Read; an error
\* other than io.EOF on every Read; or such an error once and io.EOF afterwards.
PipeEndings == {"EOF", "fail", "failThenEOF"}

\* The error of a Read that finds no byte left, `failed` telling that an
\* earlier Read already returned an error other than io.EOF.
ErrAtEnd(ending, failed) ==
    CASE ending = "EOF" -> "EOF"
      [] ending = "fail" -> "fail"
      [] ending = "failThenEOF" -> IF failed THEN "EOF" ELSE "fail"

\* pipe.Read(buf) with room for `room` bytes: the [n, err] it can return.  A
\* pipe gives any positive number of the bytes it holds.
PipeRead(room, left, ending, failed) ==
    IF left > 0
    THEN {[n |-> n, err |-> "nil"] : n \in 1..(IF left < room THEN left ELSE room)}
    ELSE {[n |-> 0, err |-> ErrAtEnd(ending, failed)]}

\* Reads counted after a Read failed: the count stops at the bound.
Retried(val) ==
    IF ~val.failed THEN val.retried
    ELSE IF val.retried < MaxRetried THEN val.retried + 1 ELSE MaxRetried

\* What a loop knows after one more Read returned r.
AfterRead(val, r) ==
    [got |-> val.got + r.n,
     failed |-> val.failed \/ r.err = "fail",
     retried |-> Retried(val),
     ret |-> val.ret]

Reading == [got |-> 0, failed |-> FALSE, retried |-> 0, ret |-> "none"]

\* Audio.Read on a started handle: one Read of io.ReadFull's loop, which runs
\* while the buffer is not full and no Read returned an error.  Any error makes
\* Audio.Read shorten the buffer and Close; it returns n > 0.
ReadFullStep ==
    /\ arg.fn = "Audio.Read"
    /\ res.op = "reading"
    /\ IF res.val.got >= arg.want
       THEN res' = [op |-> "returned", val |-> [res.val EXCEPT !.ret = "true"]]
       ELSE \E r \in PipeRead(arg.want - res.val.got, arg.data - res.val.got,
                             arg.ending, res.val.failed) :
              LET v == AfterRead(res.val, r) IN
              IF r.err # "nil"
              THEN res' = [op |-> "returned",
                           val |-> [v EXCEPT !.ret = IF v.got > 0 THEN "true"
                                                     ELSE "false"]]
              ELSE res' = [op |-> "reading", val |-> v]
    /\ UNCHANGED <<host, fmtVars, codecVars, handleVars, arg, signalVars>>

\* Microphone.Read on a started handle: one turn of
\* for total < len(mic.buffer) { n, _ := (*mic.pipe).Read(...); total += n }
MicLoopStep ==
    /\ arg.fn = "Microphone.Read"
    /\ res.op = "reading"
    /\ IF res.val.got >= arg.want
       THEN res' = [op |-> "returned", val |-> [res.val EXCEPT !.ret = "true"]]
       ELSE \E r \in PipeRead(arg.want - res.val.got, arg.data - res.val.got,
                             arg.ending, res.val.failed) :
              res' = [op |-> "reading", val |-> AfterRead(res.val, r)]
    /\ UNCHANGED <<host, fmtVars, codecVars, handleVars, arg, signalVars>>

\* What the function returns after its loop: ffprobe returns the error of
\* cmd.Wait(), the other two ignore it.
DrainReturn(fn, waitErr) == IF fn = "ffprobe" /\ waitErr THEN "error" ELSE "nil"

\* ffprobe, getDevicesWindows, getMicrophoneData: one turn of
\* for { n, err := pipe.Read(buffer); ...; if err == io.EOF { break } }
\* and, after the break, the rest of the function.
DrainStep ==
    /\ arg.fn \in Drains
    /\ res.op = "reading"
    /\ \E r \in PipeRead(arg.want, arg.data - res.val.got, arg.ending,
                         res.val.failed) :
          LET v == AfterRead(res.val, r) IN
          IF r.err = "EOF"
          THEN res' = [op |-> "returned",
                       val |-> [v EXCEPT !.ret = DrainReturn(arg.fn, arg.waitErr)]]
          ELSE res' = [op |-> "reading", val |-> v]
    /\ UNCHANGED <<host, fmtVars, codecVars, handleVars, arg, signalVars>>

----------------------------------------------------------------------------
(* A tool run to its end: the tool, its pipe, and the caller *)

\* The smaller of two numbers.
Least(a, b) == IF a < b THEN a ELSE b

\* A bug the three functions could have: cmd.Wait() called before the loop.
WaitsFirst(fn) == "waiting"

\* Where the caller is after cmd.Start(): in the loop that reads the pipe.
AfterStart(fn) == "reading"

\* The tool has arg.size bytes to print; the pipe holds at most PipeCapacity
\* bytes; res.val tells what the tool has written, what the pipe holds, what
\* the caller has read, and where tool and caller are.
Draining(fn) ==
    [written |-> 0, held |-> 0, got |-> 0, tool |-> "running", caller |-> AfterStart(fn)]

\* The tool writes to its stdout or stderr: as much as the pipe has room for,
\* or, blocked on a full pipe, nothing.
ToolWrite ==
    /\ arg.fn \in Drains
    /\ res.op = "draining"
    /\ res.val.tool = "running"
    /\ \E n \in 1..Least(arg.size - res.val.written, PipeCapacity - res.val.held) :
          res' = [res EXCEPT !.val.written = @ + n, !.val.held = @ + n]
    /\ UNCHANGED <<host, fmtVars, codecVars, handleVars, arg, signalVars>>

\* The tool has printed everything and exits, which closes its end of the pipe.
ToolEnd ==
    /\ arg.fn \in Drains
    /\ res.op = "draining"
    /\ res.val.tool = "running"
    /\ res.val.written = arg.size
    /\ res' = [res EXCEPT !.val.tool = "exited"]
    /\ UNCHANGED <<host, fmtVars, codecVars, handleVars, arg, signalVars>>

\* n, err := pipe.Read(buffer); builder.Write(buffer[:n]): bytes are there.
\* With an empty pipe and the tool running, Read blocks.
DrainRead ==
    /\ arg.fn \in Drains
    /\ res.op = "draining"
    /\ res.val.caller = "reading"
    /\ \E n \in 1..Least(arg.room, res.val.held) :
          res' = [res EXCEPT !.val.got = @ + n, !.val.held = @ - n]
    /\ UNCHANGED <<host, fmtVars, codecVars, handleVars, arg, signalVars>>

\* pipe.Read returns 0, io.EOF: the pipe is empty and its other end closed.
\* The loop breaks and the caller goes on to cmd.Wait().
DrainEnd ==
    /\ arg.fn \in Drains
    /\ res.op = "draining"
    /\ res.val.caller = "reading"
    /\ res.val.held = 0
    /\ res.val.tool = "exited"
    /\ res' = [res EXCEPT !.val.caller = "waiting"]
    /\ UNCHANGED <<host, fmtVars, codecVars, handleVars, arg, signalVars>>

\* cmd.Wait() returns once the tool has exited; the function parses what it
\* read and returns.  A caller that waited before reading reads afterwards.
DrainWait ==
    /\ arg.fn \in Drains
    /\ res.op = "draining"
    /\ res.val.caller = "waiting"
    /\ res.val.tool = "exited"
    /\ res' = [res EXCEPT !.val.caller = "returned"]
    /\ UNCHANGED <<host, fmtVars, codecVars, handleVars, arg, signalVars>>

----------------------------------------------------------------------------
(* Specifications *)

InitFormat ==
    /\ host \in Hosts
    /\ tok \in CandidateTokens
    /\ fmtRes = NoResult
    /\ CodecIdle
    /\ HandleIdle
    /\ UtilIdle
    /\ SignalIdle

NextFormat == CheckFormatOp \/ NormalizeOp

SpecFormat == InitFormat /\ [][NextFormat]_vars

\* The 18 tool-facing formats checkFormat accepts, computed from the short ones.
ValidFormats == {createFormat(t, h) : t \in
                    {k \o w : k \in Kinds, w \in Widths}, h \in Hosts}
                    \cap {f \in CandidateTokens : checkFormat(f) = "nil"}

InitCodec ==
    /\ host \in Hosts
    /\ FormatIdle
    /\ cfmt \in ValidFormats
    /\ \E k \in 0..MaxCodecSamples, seed \in 0..MaxSeed :
           cbuf = PatternBytes(seed, k * (bitsPerSample(cfmt) \div 8))
    /\ cview = NoView
    /\ cout = NoBytes
    /\ cphase = "input"
    /\ HandleIdle
    /\ UtilIdle
    /\ SignalIdle

NextCodec == DecodeOp \/ EncodeOp

SpecCodec == InitCodec /\ [][NextCodec]_vars

HandleKinds == {"Audio", "Microphone", "AudioWriter", "Player"}

Init ==
    /\ host \in Hosts
    /\ FormatIdle
    /\ CodecIdle
    /\ kind \in HandleKinds
    /\ phase = "new"
    /\ format = <<>>
    /\ channels = 0
    /\ samplerate = 0
    /\ buffer = NoBytes
    /\ cmd = "nil"
    /\ pipe = "nil"
    /\ ended = FALSE
    /\ proc = "none"
    /\ \E n \in 0..MaxStream :
           stream = IF kind \in {"Audio", "Microphone"} THEN PatternBytes(0, n) ELSE <<>>
    /\ total = Len(stream)
    /\ written = <<>>
    /\ spawned = 0
    /\ listeners = 0
    /\ ioCalled = FALSE
    /\ last = NoCall
    /\ delivered = <<>>
    /\ payload = NoView
    /\ closed = FALSE
    /\ UtilIdle
    /\ SignalIdle

\* The constructors.  The readers are configured with every format, channel
\* count and rate; the writers, whose Write and Play look at none of the three,
\* with a few formats, one channel count and one rate.
ConstructReader ==
    /\ kind \in {"Audio", "Microphone"}
    /\ \E token \in OptionTokens, ch \in 1..MaxChannels, rate \in SampleRates :
           New(token, ch, rate, "ok")

ConstructWriter ==
    /\ kind \in {"AudioWriter", "Player"}
    /\ \E token \in WriterTokens, outcome \in LaunchOutcomes :
           New(token, MaxChannels, 1, outcome)

Construct == ConstructReader \/ ConstructWriter

Next ==
    \/ Construct
    \/ \E b \in CallerBuffers : SetBuffer(b)
    \/ \E outcome \in LaunchOutcomes : AudioRead(outcome)
    \/ AudioClose
    \/ \E outcome \in LaunchOutcomes : MicRead(outcome)
    \/ MicClose
    \/ \E type \in PayloadTypes, n \in 0..MaxPayload, outcome \in LaunchOutcomes,
          chunk \in 1..MaxChunk, k \in 0..MaxWritten :
              WriterWrite(Payload(type, n), outcome, chunk, k)
    \/ \E type \in PayloadTypes, n \in 0..MaxPayload, chunk \in 1..MaxChunk,
          k \in 0..MaxWritten : PlayerPlay(Payload(type, n), chunk, k)
    \/ WriterClose

Spec == Init /\ [][Next]_vars

\* The constructors' options and Total.
InitOptions ==
    /\ host \in Hosts
    /\ FormatIdle
    /\ CodecIdle
    /\ HandleIdle
    /\ SignalIdle
    /\ \/ \E o \in OptionValues, d \in ProbeData :
              arg = [fn |-> "NewAudio", options |-> o, data |-> d]
       \/ \E o \in OptionValues : arg = [fn |-> "NewAudioWriter", options |-> o]
    /\ res = NoOutput

NextOptions == NewAudioOp \/ NewAudioWriterOp \/ TotalOp

SpecOptions == InitOptions /\ [][NextOptions]_vars

\* The parsers of tool output, each applied to one text.
InitParse ==
    /\ host \in Hosts
    /\ FormatIdle
    /\ CodecIdle
    /\ HandleIdle
    /\ SignalIdle
    /\ \/ \E t \in Metadata : arg = [fn |-> "ffprobe", text |-> t]
       \/ \E l \in ListingsUpTo(MaxLines) :
              \E sep \in (IF Len(l) > 1 THEN LineEnds ELSE {<<"\n">>}) :
                  arg = [fn |-> "parseDevices", lines |-> l, text |-> JoinLines(l, sep)]
       \/ arg = [fn |-> "parseDevices", lines |-> <<>>, text |-> WikiSample]
    /\ res = NoOutput

NextParse == FFprobeOp \/ ParseDevicesOp

SpecParse == InitParse /\ [][NextParse]_vars

\* The writing handles alone.
InitWriter == Init /\ kind \in {"AudioWriter", "Player"}

NextWriter ==
    \/ ConstructWriter
    \/ \E type \in PayloadTypes, n \in 0..MaxPayload, outcome \in LaunchOutcomes,
          chunk \in 1..MaxChunk, k \in 0..MaxWritten :
              WriterWrite(Payload(type, n), outcome, chunk, k)
    \/ \E type \in PayloadTypes, n \in 0..MaxPayload, chunk \in 1..MaxChunk,
          k \in 0..MaxWritten : PlayerPlay(Payload(type, n), chunk, k)
    \/ WriterClose

SpecWriter == InitWriter /\ [][NextWriter]_vars

\* A handle, the signal and the goroutine of cleanup.  The goroutine is
\* runnable from the moment the signal is queued and the scheduler runs it.
ConstructPlain == \E outcome \in LaunchOutcomes : New(<<"s", "1", "6">>, 1, 1, outcome)

NextSignal ==
    \/ ConstructPlain
    \/ \E outcome \in LaunchOutcomes : AudioRead(outcome)
    \/ AudioClose
    \/ \E outcome \in LaunchOutcomes : MicRead(outcome)
    \/ MicClose
    \/ \E type \in PayloadTypes, n \in 0..MaxPayload, outcome \in LaunchOutcomes,
          chunk \in 1..MaxChunk, k \in 0..MaxWritten :
              WriterWrite(Payload(type, n), outcome, chunk, k)
    \/ \E type \in PayloadTypes, n \in 0..MaxPayload, chunk \in 1..MaxChunk,
          k \in 0..MaxWritten : PlayerPlay(Payload(type, n), chunk, k)
    \/ WriterClose
    \/ Signal
    \/ RespondClose
    \/ RespondKill
    \/ RespondExit

SpecSignal ==
    /\ Init
    /\ [][NextSignal]_vars
    /\ WF_vars(RespondClose)
    /\ WF_vars(RespondKill)
    /\ WF_vars(RespondExit)

\* A handle whose Close is followed step by step, next to its subprocess.  The
\* subprocess and the caller blocked in Close are scheduled fairly.
NextClose ==
    \/ ConstructPlain
    \/ \E outcome \in LaunchOutcomes : AudioRead(outcome)
    \/ \E outcome \in LaunchOutcomes : MicRead(outcome)
    \/ \E type \in PayloadTypes, n \in 0..MaxPayload, outcome \in LaunchOutcomes,
          chunk \in 1..MaxChunk, k \in 0..MaxWritten :
              WriterWrite(Payload(type, n), outcome, chunk, k)
    \/ \E type \in PayloadTypes, n \in 0..MaxPayload, chunk \in 1..MaxChunk,
          k \in 0..MaxWritten : PlayerPlay(Payload(type, n), chunk, k)
    \/ CloseBegin
    \/ ToolExit
    \/ CloseWait
    \/ CloseKill

SpecClose ==
    /\ Init
    /\ [][NextClose]_vars
    /\ WF_vars(ToolExit)
    /\ WF_vars(CloseWait)
    /\ WF_vars(CloseKill)

\* Several handles of one host process, a signal, and their goroutines.
InitRace ==
    /\ host \in Hosts
    /\ FormatIdle
    /\ CodecIdle
    /\ HandleIdle
    /\ SignalIdle
    /\ HandlesIdle

NextRace ==
    \/ \E h \in Handles : RaceStart(h)
    \/ \E h \in Handles : RaceCallerClose(h)
    \/ RaceSignal
    \/ \E h \in Handles : RaceClose(h)
    \/ \E h \in Handles : RaceKill(h)
    \/ \E h \in Handles : RaceExit(h)

SpecRace == InitRace /\ [][NextRace]_vars

\* A handle whose lazy start is followed step by step, next to the signal and
\* the goroutine of cleanup.
NextStart ==
    \/ Construct
    \/ LazyCleanup
    \/ LazyCommand
    \/ \E outcome \in LaunchOutcomes : LazyPipe(outcome)
    \/ \E outcome \in LaunchOutcomes : LazyStart(outcome)
    \/ Signal
    \/ RespondClose
    \/ RespondKill
    \/ RespondExit

SpecStart == Init /\ [][NextStart]_vars

\* Options with a format that is valid, defaulted or invalid.
NewOptions ==
    {NilOptions} \cup
    [nil : {FALSE}, SampleRate : {0, 100}, Channels : {0}, Bitrate : {0},
     Format : {<<>>, <<"s", "8">>, <<"s", "1", "7">>}, Codec : {<<>>}]

\* What ffprobe prints for one stream type: up to MaxRecords records.
ProbeRecords ==
    {[codec_name |-> mp3],
     [sample_rate |-> <<"8", "0", "0", "0">>, channels |-> <<"1">>, codec_name |-> mp3]}
ProbeLists == UNION {[1..n -> ProbeRecords] : n \in 0..MaxRecords}
\* The constructors, each called once.
InitNew ==
    /\ host \in Hosts
    /\ FormatIdle
    /\ CodecIdle
    /\ HandleIdle
    /\ SignalIdle
    /\ \E fn \in {"NewAudioStreams", "NewMicrophone", "NewAudioWriter", "NewPlayer"},
          o \in NewOptions :
          CASE fn = "NewAudioStreams" ->
                   \E present \in BOOLEAN, a \in ProbeLists,
                      others \in [{"v", "s", "d", "t"} -> {<<>>, <<[codec_name |-> mp3]>>}] :
                      arg = [fn |-> fn, options |-> o, present |-> present,
                             probe |-> [c \in {"a", "v", "s", "d", "t"} |->
                                          IF c = "a" THEN a ELSE others[c]]]
            [] fn = "NewMicrophone" ->
                   \E goos \in Systems, index \in 0..MaxDevices, devices \in 0..MaxDevices :
                      arg = [fn |-> fn, options |-> o, goos |-> goos, index |-> index,
                             devices |-> devices]
            [] fn = "NewAudioWriter" ->
                   \E streamFile \in {"", "present", "missing"} :
                      arg = [fn |-> fn, options |-> o, streamFile |-> streamFile]
            [] fn = "NewPlayer" ->
                   /\ ~o.nil
                   /\ o.Format # <<>>
                   /\ arg = [fn |-> fn, options |-> o]
    /\ res = NoOutput

NextNew == NewRunOp \/ AccessorsOp

SpecNew == InitNew /\ [][NextNew]_vars

\* A tool that prints arg.size bytes, run by one of the three functions that
\* read a tool's output to its end.  Tool and caller are scheduled fairly.
InitDrain ==
    /\ host \in Hosts
    /\ FormatIdle
    /\ CodecIdle
    /\ HandleIdle
    /\ SignalIdle
    /\ \E fn \in Drains, size \in 0..MaxOutput, room \in 1..MaxChunk :
          /\ arg = [fn |-> fn, size |-> size, room |-> room]
          /\ res = [op |-> "draining", val |-> Draining(fn)]

NextDrain == ToolWrite \/ ToolEnd \/ DrainRead \/ DrainEnd \/ DrainWait

SpecDrain ==
    /\ InitDrain
    /\ [][NextDrain]_vars
    /\ WF_vars(ToolWrite)
    /\ WF_vars(ToolEnd)
    /\ WF_vars(DrainRead)
    /\ WF_vars(DrainEnd)
    /\ WF_vars(DrainWait)

\* parseMicrophoneData, applied to one text.
InitMic ==
    /\ host \in Hosts
    /\ FormatIdle
    /\ CodecIdle
    /\ HandleIdle
    /\ SignalIdle
    /\ \E t \in PiecesUpTo(MaxPieces) \cup {MicSample} :
          arg = [fn |-> "parseMicrophoneData", text |-> t]
    /\ res = NoOutput

NextMic == ParseMicrophoneOp

SpecMic == InitMic /\ [][NextMic]_vars

\* The loops that read a pipe, each on one pipe with arg.data bytes to come.
InitPipe ==
    /\ host \in Hosts
    /\ FormatIdle
    /\ CodecIdle
    /\ HandleIdle
    /\ SignalIdle
    /\ \E fn \in PipeReaders, want \in 1..MaxBuf, data \in 0..MaxStream,
          ending \in PipeEndings, waitErr \in BOOLEAN :
          /\ waitErr => fn = "ffprobe"
          /\ arg = [fn |-> fn, want |-> want, data |-> data, ending |-> ending,
                    waitErr |-> waitErr]
    /\ res = [op |-> "reading", val |-> Reading]

NextPipe == ReadFullStep \/ MicLoopStep \/ DrainStep

SpecPipe == InitPipe /\ [][NextPipe]_vars

----------------------------------------------------------------------------
(* Claims about the format catalog (SpecFormat) *)

ToolTokens ==
    {<<"u", "8">>, <<"s", "8">>,
     <<"u", "1", "6", "l", "e">>, <<"u", "1", "6", "b", "e">>,
     <<"u", "2", "4", "l", "e">>, <<"u", "2", "4", "b", "e">>,
     <<"u", "3", "2", "l", "e">>, <<"u", "3", "2", "b", "e">>,
     <<"s", "1", "6", "l", "e">>, <<"s", "1", "6", "b", "e">>,
     <<"s", "2", "4", "l", "e">>, <<"s", "2", "4", "b", "e">>,
     <<"s", "3", "2", "l", "e">>, <<"s", "3", "2", "b", "e">>,
     <<"f", "3", "2", "l", "e">>, <<"f", "3", "2", "b", "e">>,
     <<"f", "6", "4", "l", "e">>, <<"f", "6", "4", "b", "e">>}

ShortTokens ==
    {<<"u", "8">>, <<"s", "8">>,
     <<"u", "1", "6">>, <<"s", "1", "6">>, <<"u", "2", "4">>, <<"s", "2", "4">>,
     <<"u", "3", "2">>, <<"s", "3", "2">>, <<"f", "3", "2">>, <<"f", "6", "4">>}

NamedRejects ==
    {alaw, mulaw, <<"f", "3", "2">>, <<"f", "6", "4">>, <<"u", "8", "b", "e">>,
     <<"f", "1", "6", "l", "e">>, <<"f", "8">>, <<"s", "6", "4", "l", "e">>,
     <<"u", "8", "l", "e">>, <<"s", "1", "6", "l", "e", "l", "e">>, <<"s", "1", "6">>}

\* C1: checkFormat succeeds for exactly the 18 tool-facing tokens; alaw, mulaw,
\* f32, f64, u8be, f16le, f8, s64le, u8le, s16lele and s16 get a format error,
\* and no candidate token outside the 18 is accepted.
C1_CheckFormatAcceptsExactly18 ==
    fmtRes.op = "check" =>
        /\ (fmtRes.err = "nil") <=> (tok \in ToolTokens)
        /\ tok \in NamedRejects => fmtRes.err = "error"

C1_Witness ==
    /\ fmtRes.op = "check"
    /\ tok = <<"u", "8", "b", "e">>
    /\ fmtRes.err = "error"

\* C2: createFormat followed by checkFormat accepts exactly the ten short tokens;
\* the tool-facing token is the token itself for u8 and s8 and the token with the
\* host's endianness suffix for the other eight; a token that already carries a
\* suffix, and alaw and mulaw, get a format error.
C2_NormalizeAcceptsExactly10 ==
    fmtRes.op = "normalize" =>
        /\ (fmtRes.err = "nil") <=> (tok \in ShortTokens)
        /\ tok \in {<<"u", "8">>, <<"s", "8">>} => fmtRes.out = tok
        /\ tok \in ShortTokens \ {<<"u", "8">>, <<"s", "8">>} =>
               /\ Len(fmtRes.out) = Len(tok) + 2
               /\ SubSeq(fmtRes.out, 1, Len(tok)) = tok
               /\ SubSeq(fmtRes.out, Len(tok) + 1, Len(tok) + 2) = host
        /\ tok \in (ToolTokens \ ShortTokens) \cup {alaw, mulaw} =>
               fmtRes.err = "error"

C2_Witness ==
    /\ fmtRes.op = "normalize"
    /\ tok = <<"s", "1", "6", "l", "e">>
    /\ fmtRes.out = <<"s", "1", "6", "l", "e">> \o host
    /\ fmtRes.err = "error"

----------------------------------------------------------------------------
(* Claims about the sample codec (SpecCodec) *)

\* C3: for every supported format and every buffer whose length is a multiple of
\* the format's bytes per sample, samplesToBytes(bytesToSamples(buffer,
\* len/bytesPerSample, format)) has the length and the bytes of buffer, in order.
C3_CodecRoundTrip ==
    cphase = "encoded" =>
        /\ ~cout.nil
        /\ Len(cout.bytes) = Len(cbuf)
        /\ \A i \in 1..Len(cbuf) : cout.bytes[i] = cbuf[i]

C3_Witness ==
    /\ cphase = "encoded"
    /\ cfmt = <<"s", "3", "2", "l", "e">>
    /\ Len(cbuf) = 8
    /\ cview.type = "int32"
    /\ Len(cview.elems) = 2
    /\ cout.bytes = cbuf

----------------------------------------------------------------------------
(* Claims about the stream handles (Spec) *)

IsAudio == kind = "Audio" /\ phase = "ready"
BytesPerSample == bps \div 8
LastCall(op, ret) == last.op = op /\ last.ret = ret

\* Element i of Samples() is what the machine reads from bytes
\* [(i-1)*w, i*w) of Buffer(): the most significant digit is the last byte of
\* the group on a little-endian machine, the first on a big-endian one.
SamplesAreNativeViews ==
    LET w == BytesPerSample
        view == Samples
    IN  \A i \in 1..Len(view.elems) : \A j \in 1..w :
            view.elems[i][j] =
                buffer.bytes[(i - 1) * w + (IF host = <<"l", "e">> THEN w + 1 - j ELSE j)]

\* C4 as stated: for every non-24-bit format, after every Read that returned
\* true, len(Samples()) * bytesPerSample == len(Buffer()) and element i of
\* Samples() is the host-order reading of its bytes of Buffer().
C4_Original ==
    (IsAudio /\ LastCall("Read", "true") /\ bps # 24) =>
        /\ Len(Samples.elems) * BytesPerSample = Len(buffer.bytes)
        /\ SamplesAreNativeViews

\* C4, amended: after every Read that returned true on a non-24-bit format,
\* Samples() has floor(len(Buffer())/bytesPerSample) elements, each the
\* host-order reading of its bytes of Buffer(), without byte swapping;
\* len(Samples()) * bytesPerSample == len(Buffer()) when the Read filled the
\* buffer, and after the final short read only when the bytes delivered are a
\* whole number of samples.
C4_SamplesViewBuffer ==
    (IsAudio /\ LastCall("Read", "true") /\ bps # 24) =>
        /\ Len(Samples.elems) = Len(buffer.bytes) \div BytesPerSample
        /\ SamplesAreNativeViews
        /\ ~ended => Len(Samples.elems) * BytesPerSample = Len(buffer.bytes)
        /\ Len(Samples.elems) * BytesPerSample # Len(buffer.bytes) =>
               /\ ended
               /\ stream = <<>>
               /\ total % BytesPerSample # 0

C4_Witness ==
    /\ IsAudio
    /\ LastCall("Read", "true")
    /\ ~ended
    /\ format = <<"u", "1", "6", "l", "e">>
    /\ Samples.type = "uint16"
    /\ Len(Samples.elems) = 2
    /\ Samples.elems[1] = <<buffer.bytes[2], buffer.bytes[1]>>

\* C5: SetBuffer returns an error exactly when len(buffer) is not a multiple of
\* bytesPerSample*channels (2 channels of 16 bits: 101 bytes are rejected, 12
\* accepted); a rejected call leaves the handle's buffer as it was, an accepted
\* one makes the supplied buffer the handle's buffer.
C5_SetBufferAlignment ==
    /\ Misaligned(101, 16, 2)
    /\ ~Misaligned(12, 16, 2)
    /\ [][\A b \in CallerBuffers :
            SetBuffer(b) =>
                IF Len(b.bytes) % (BytesPerSample * channels) # 0
                THEN last'.ret = "error" /\ buffer' = buffer
                ELSE last'.ret = "nil" /\ buffer' = b]_vars

C5_Witness ==
    /\ kind = "Microphone"
    /\ LastCall("SetBuffer", "error")
    /\ channels = 2
    /\ bps = 16
    /\ Len(buffer.bytes) = 4

\* C6 as stated: in every state of an Audio handle, for any byte stream,
\* len(Buffer()) is a multiple of bytesPerSample*channels, also after the final
\* short read.
C6_Original ==
    IsAudio => Len(buffer.bytes) % (BytesPerSample * channels) = 0

\* C6, amended: len(Buffer()) is a multiple of bytesPerSample*channels in every
\* state reachable by SetBuffer, Read and Close, except after the final short
\* read of a stream that is not a whole number of frames: then the handle has
\* ended and len(Buffer()) is the length of the stream's tail, congruent to the
\* stream's length modulo the frame size.
C6_BufferAlignedUntilShortRead ==
    IsAudio =>
        LET frame == BytesPerSample * channels IN
        \/ Len(buffer.bytes) % frame = 0
        \/ /\ ended
           /\ stream = <<>>
           /\ Len(buffer.bytes) % frame = total % frame

C6_Witness ==
    /\ IsAudio
    /\ LastCall("Read", "true")
    /\ ended
    /\ channels = 2
    /\ bps = 16
    /\ total = 5
    /\ Len(buffer.bytes) = 1

\* A Read or Write call that reaches the lazy start, with the launch succeeding.
LazyStartCall ==
    \/ AudioRead("ok")
    \/ MicRead("ok")
    \/ \E type \in PayloadTypes \ {"string"}, n \in 0..MaxPayload,
          chunk \in 1..MaxChunk, k \in 0..MaxWritten :
              WriterWrite(Payload(type, n), "ok", chunk, k)

\* C7: on an Audio, Microphone or AudioWriter handle the first Read/Write in the
\* unopened state starts the subprocess rather than failing for being unopened,
\* and over any sequence of Read/Write/SetBuffer/Close calls at most one
\* subprocess is ever started for the handle.
C7_LazyStartAtMostOnce ==
    /\ [](kind # "Player" => spawned <= 1)
    /\ [][(kind # "Player" /\ cmd = "nil" /\ ~ended /\ LazyStartCall) =>
            /\ spawned' = spawned + 1
            /\ cmd' = "set"
            /\ last'.ret # "panic"]_vars
    /\ [][(kind # "Player" /\ cmd # "nil") => spawned' = spawned]_vars

C7_Witness ==
    /\ kind = "AudioWriter"
    /\ spawned = 1
    /\ LastCall("Write", "nil")
    /\ Len(written) = 4

\* C8 as stated: each of the four handles is constructed not started (no
\* subprocess, no buffer), and its subprocess is started only by the first
\* read/write/play call.
C8_Original ==
    (phase = "ready" /\ ~ioCalled) =>
        /\ spawned = 0
        /\ cmd = "nil"
        /\ proc = "none"
        /\ Len(buffer.bytes) = 0 \/ last.op # "New"

\* C8, amended: Audio, Microphone and AudioWriter are constructed not started:
\* until the first Read/Write no subprocess is spawned, no command or pipe
\* exists, and right after construction the readers' buffer is nil
\* (len(Buffer()) == 0).  NewPlayer, however, creates the pipe and starts the
\* ffplay subprocess in the constructor, before any Play call.
C8_ConstructedNotStartedExceptPlayer ==
    /\ (phase = "ready" /\ ~ioCalled /\ kind # "Player") =>
           /\ spawned = 0
           /\ cmd = "nil"
           /\ pipe = "nil"
           /\ proc = "none"
           /\ listeners = 0
    /\ (phase = "ready" /\ last.op = "New" /\ kind # "Player") =>
           buffer.nil /\ Len(buffer.bytes) = 0
    /\ (phase = "ready" /\ last.op = "New" /\ kind = "Player") =>
           /\ spawned = 1
           /\ cmd = "set"
           /\ pipe = "open"
           /\ proc = "running"

C8_Witness ==
    /\ phase = "ready"
    /\ last.op = "New"
    /\ kind = "Player"
    /\ ~ioCalled
    /\ spawned = 1

\* Audio.Read reads from an open pipe: the handle is started with an open pipe,
\* or it is unopened and this call's launch succeeds.
ReadsFromPipe(outcome) ==
    /\ ~ended
    /\ \/ cmd = "nil" /\ outcome = "ok"
       \/ cmd = "set" /\ pipe = "open"

\* The length of the buffer Audio.Read fills: the caller's, or the second of
\* audio that lazy start allocates when there is none.
WantedBytes ==
    IF cmd = "nil" /\ buffer.nil
    THEN samplerate * channels * BytesPerSample
    ELSE Len(buffer.bytes)

\* C9: when the pipe reaches end-of-stream after delivering k < len(buffer)
\* bytes to a Read, then after the call Buffer() has length k and holds those k
\* bytes, the handle is closed, and every later Read returns false without
\* reading from the pipe or changing the buffer.
C9_ShortReadEndsStream ==
    /\ [][\A outcome \in LaunchOutcomes :
            (AudioRead(outcome) /\ ReadsFromPipe(outcome) /\ Len(stream) < WantedBytes) =>
                /\ buffer'.bytes = stream
                /\ ended'
                /\ pipe' = "closed"
                /\ proc' = "waited"]_vars
    /\ [][ended => ended']_vars
    /\ [][\A outcome \in LaunchOutcomes :
            (AudioRead(outcome) /\ ended) =>
                /\ last'.ret = "false"
                /\ buffer' = buffer
                /\ stream' = stream
                /\ pipe' = pipe
                /\ spawned' = spawned]_vars

C9_Witness ==
    /\ IsAudio
    /\ ended
    /\ LastCall("Read", "false")
    /\ pipe = "closed"
    /\ total = 3
    /\ channels = 2
    /\ bps = 8
    /\ buffer.bytes = <<ByteAt(0, 3)>>

\* C10 as stated, for a handle whose subprocess was started on a non-empty
\* stream: whenever Read returns false the stream has been read to its end or
\* the handle was closed, and the handle is closed (ended set, pipe closed,
\* subprocess waited for), whatever buffer SetBuffer installed.
C10_Original ==
    (IsAudio /\ LastCall("Read", "false") /\ spawned = 1 /\ total > 0) =>
        /\ ended
        /\ pipe = "closed"
        /\ proc = "waited"

\* The byte sequence the subprocess of the handle emits.
WholeStream == PatternBytes(0, total)

\* The caller closed the handle before the stream was read to its end.
ClosedEarly == ended /\ stream # <<>>

\* C11 as stated, for an Audio handle whose subprocess runs: the Buffer()
\* contents observed after the Reads that returned true, concatenated, are the
\* bytes the subprocess has emitted so far, in order, none lost or duplicated;
\* and once Read returns false (the caller not having closed the handle early)
\* the concatenation is the whole stream.
C11_Original ==
    (IsAudio /\ spawned = 1) =>
        /\ delivered \o stream = WholeStream
        /\ (LastCall("Read", "false") /\ ~ClosedEarly) => delivered = WholeStream

\* C12: Write and Play return nil only when the pipe has been handed every byte
\* of the payload once and in order, whatever the sizes of the partial writes;
\* when a pipe write fails the call returns the error and the pipe has been
\* handed only the bytes accepted before the failure, a proper prefix of the
\* payload; a call that panics hands nothing.
C12_WriteAll ==
    [][last'.op \in {"Write", "Play"} =>
       LET data == samplesToBytes(payload', host).bytes IN
           /\ last'.ret = "nil" => written' = written \o data
           /\ last'.ret = "error" =>
                  \E j \in 0..Len(data) :
                      /\ written' = written \o SubSeq(data, 1, j)
                      /\ j < Len(data) \/ Len(data) = 0
           /\ last'.ret = "panic" => written' = written]_vars

\* A Write that returned nil after the pipe took the payload in more than one
\* partial write.
C12_Witness ==
    /\ kind = "AudioWriter"
    /\ LastCall("Write", "nil")
    /\ Len(written) > MaxChunk

\* One second of audio, in bytes: sampleRate * channels * bytesPerSample.
OneSecond == samplerate * channels * BytesPerSample

\* C13: a Read that returns true with the stream holding at least a buffer's
\* worth of bytes fills the buffer.  If no buffer was installed (the field is
\* nil) when the Read starts the subprocess, the buffer it leaves has exactly
\* OneSecond bytes; if the caller had installed a buffer, with SetBuffer before
\* the first Read or at any time, the Read keeps it and its length.
C13_BufferSizing ==
    [][(kind \in {"Audio", "Microphone"} /\ last'.op = "Read" /\ last'.ret = "true") =>
           /\ (buffer.nil /\ spawned' = spawned + 1 /\ Len(stream) >= OneSecond) =>
                  /\ ~buffer'.nil
                  /\ Len(buffer'.bytes) = OneSecond
           /\ (~buffer.nil /\ Len(stream) >= Len(buffer.bytes)) =>
                  /\ ~buffer'.nil
                  /\ Len(buffer'.bytes) = Len(buffer.bytes)]_vars

\* The first Read has filled a buffer the caller installed, of a length other
\* than one second's.
C13_Witness ==
    /\ kind \in {"Audio", "Microphone"}
    /\ LastCall("Read", "true")
    /\ spawned = 1
    /\ ~ended
    /\ Len(buffer.bytes) = MaxBuf
    /\ OneSecond < MaxBuf
    /\ Len(stream) = total - MaxBuf

----------------------------------------------------------------------------
(* Claims about the constructors' options and Total (SpecOptions) *)

\* x rounded up to the next multiple of frame.
RoundUp(x, frame) == ((x + frame - 1) \div frame) * frame

\* C14 as stated: Total() is ceil(sampleRate * frame * duration) rounded up to
\* the next multiple of frame = channels*bitsPerSample/8: a multiple of frame,
\* not below the ceiling and less than a frame above it.
C14_Original ==
    (res.op = "Total" /\ ~res.total.panic) =>
        LET h == res.val
            frame == (h.channels * h.bps) \div 8
            ceiling == (h.samplerate * frame * h.duration + 999) \div 1000
        IN  /\ res.total.n = RoundUp(ceiling, frame)
            /\ res.total.n % frame = 0
            /\ res.total.n >= ceiling
            /\ res.total.n - ceiling < frame

s16 == <<"s", "1", "6">>

\* C15: NewAudioWriter with nil options succeeds with 44100 Hz, 2 channels and
\* the s16 format; with options, each of SampleRate, Channels and Format that is
\* non-zero/non-empty replaces its own default and no other.
C15_WriterDefaults ==
    (res.op = "NewAudioWriter") =>
        LET o == arg.options
            w == res.val
        IN  /\ o.nil =>
                   /\ w.err = "nil"
                   /\ w.samplerate = 44100
                   /\ w.channels = 2
                   /\ Format(w.format) = s16
            /\ (~o.nil /\ w.err = "nil") =>
                   /\ w.samplerate = IF o.SampleRate # 0 THEN o.SampleRate ELSE 44100
                   /\ w.channels = IF o.Channels # 0 THEN o.Channels ELSE 2
                   /\ Format(w.format) = IF o.Format # <<>> THEN o.Format ELSE s16

\* A writer made with only the sample rate given: the other two are defaults.
C15_Witness ==
    /\ res.op = "NewAudioWriter"
    /\ ~arg.options.nil
    /\ arg.options.SampleRate = 4000
    /\ arg.options.Channels = 0
    /\ arg.options.Format = <<>>
    /\ res.val.err = "nil"
    /\ res.val.samplerate = 4000
    /\ res.val.channels = 2

\* The value the probe record gives for a key, 0 when the key is missing.
Probed(data, key) == IF key \in DOMAIN data THEN parseInt(data[key]) ELSE 0

\* C16: NewAudio takes the sample rate and channel count from the probe unless
\* the option is non-zero, which then replaces only that property; the format is
\* the option's, s16 when empty; bitrate, duration and codec are the probe's
\* whatever the options say.  Options {4000, 1, s8} on the 48000 Hz stereo mp3 of
\* 1.032 s give 4000 Hz, 1 channel, 8 bits, 128000 bit/s, 1.032 s, mp3.
C16_AudioOptions ==
    (res.op = "NewAudio" /\ res.val.err = "nil") =>
        LET o == Resolve(arg.options)
            d == arg.data
            h == res.val
        IN  /\ h.samplerate = IF o.SampleRate # 0 THEN o.SampleRate
                               ELSE Probed(d, "sample_rate")
            /\ h.channels = IF o.Channels # 0 THEN o.Channels ELSE Probed(d, "channels")
            /\ Format(h.format) = IF o.Format # <<>> THEN o.Format ELSE s16
            /\ h.bitrate = Probed(d, "bit_rate")
            /\ h.duration = (IF "duration" \in DOMAIN d THEN parse(d["duration"]) ELSE 0)
            /\ h.codec = (IF "codec_name" \in DOMAIN d THEN d["codec_name"] ELSE <<>>)
            /\ (/\ ~arg.options.nil
                /\ o.SampleRate = 4000 /\ o.Channels = 1 /\ o.Format = <<"s", "8">>
                /\ DOMAIN d = {"sample_rate", "channels", "bit_rate", "duration",
                               "codec_name"}
                /\ d["sample_rate"] = <<"4", "8", "0", "0", "0">>
                /\ d["bit_rate"] = <<"1", "2", "8", "0", "0", "0">>
                /\ d["duration"] = <<"1", ".", "0", "3", "2">>) =>
                   /\ h.samplerate = 4000
                   /\ h.channels = 1
                   /\ h.bps = 8
                   /\ h.bitrate = 128000
                   /\ h.duration = 1032
                   /\ h.codec = mp3

\* NewAudio with nil options on the 48000 Hz stereo file.
C16_Witness ==
    /\ res.op = "NewAudio"
    /\ arg.options.nil
    /\ res.val.err = "nil"
    /\ res.val.samplerate = 48000
    /\ res.val.channels = 2
    /\ Format(res.val.format) = s16
    /\ res.val.bitrate = 128000

\* The fields of a record: the stretches i..j between '|' separators.
Fields(s) ==
    {f \in (1..Len(s) + 1) \X (0..Len(s)) :
        /\ f[2] >= f[1] - 1
        /\ f[1] = 1 \/ s[f[1] - 1] = "|"
        /\ f[2] = Len(s) \/ s[f[2] + 1] = "|"
        /\ \A i \in f[1]..f[2] : s[i] # "|"}

Equals(s, f) == {i \in f[1]..f[2] : s[i] = "="}
FirstEquals(s, f) == CHOOSE i \in Equals(s, f) : \A j \in Equals(s, f) : i <= j
FieldKey(s, f) == SubSeq(s, f[1], FirstEquals(s, f) - 1)
FieldValue(s, f) == SubSeq(s, FirstEquals(s, f) + 1, f[2])
KeyedFields(s) == {f \in Fields(s) : Equals(s, f) # {}}

\* No field before f in the record has the key of f.
FirstOfKey(s, f) ==
    \A g \in KeyedFields(s) : g[1] < f[1] => FieldKey(s, g) # FieldKey(s, f)

AudioSection(lines) ==
    LET markers == {i \in 1..Len(lines) : lines[i].kind = "marker"}
    IN  IF markers = {} THEN lines
        ELSE SubSeq(lines, CHOOSE i \in markers : \A j \in markers : i <= j, Len(lines))

NameLines(section) == {i \in 1..Len(section) : section[i].kind = "name"}

NthNameLine(section, n) ==
    CHOOSE i \in NameLines(section) :
        Cardinality({j \in NameLines(section) : j <= i}) = n

AlternativeOf(section, i) ==
    LET later == {j \in NameLines(section) : j > i}
        alts == {a \in (i + 1)..Len(section) :
                    /\ section[a].kind = "alt"
                    /\ \A j \in later : a < j}
    IN  IF alts = {} THEN <<>>
        ELSE section[CHOOSE a \in alts : \A b \in alts : b <= a].name

Entries(section) ==
    [n \in 1..Cardinality(NameLines(section)) |->
        [name |-> section[NthNameLine(section, n)].name,
         alt |-> AlternativeOf(section, NthNameLine(section, n))]]

InternalMicrophone ==
    <<"I", "n", "t", "e", "r", "n", "a", "l", " ", "M", "i", "c", "r", "o", "p", "h", "o",
      "n", "e", " ", "(", "C", "o", "n", "e", "x", "a", "n", "t", " ", "2">>
VirtualAudioCapturer ==
    <<"v", "i", "r", "t", "u", "a", "l", "-", "a", "u", "d", "i", "o", "-", "c", "a", "p",
      "t", "u", "r", "e", "r">>

\* C18: parseDevices discards the text before the audio-device marker (matched
\* in any letter case) and returns the quoted primary names of the lines from
\* the marker on, in order; without a marker it parses the whole text.  The
\* listing of the FFmpeg wiki gives the two audio devices.  (Names that repeat
\* are the subject of C19; a listing on which parseDevices panics returns
\* nothing.)
C18_AudioSectionOnly ==
    (res.op = "parseDevices" /\ ~res.val.panic) =>
        /\ (arg.text = WikiSample) =>
               res.val.devices = <<InternalMicrophone, VirtualAudioCapturer>>
        /\ (arg.text # WikiSample) =>
               LET e == Entries(AudioSection(arg.lines))
               IN  /\ Len(res.val.pairs) = Len(e)
                   /\ \A i \in 1..Len(e) : res.val.pairs[i].name = e[i].name
                   /\ (\A i, j \in 1..Len(e) : e[i].name = e[j].name => i = j) =>
                          /\ Len(res.val.devices) = Len(e)
                          /\ \A i \in 1..Len(e) : res.val.devices[i] = e[i].name

\* A camera before the marker and a microphone after it: only the microphone.
C18_Witness ==
    /\ res.op = "parseDevices"
    /\ arg.lines = <<CameraLine, AudioHeader, MicLine>>
    /\ res.val.devices = <<(<<"M", "i", "c">>)>>

\* C19: the list has one entry for each device entry, in order: the alternate
\* name (empty when the entry has none) of an entry whose primary name is
\* already in the list built so far, the primary name otherwise.
C19_DuplicateNames ==
    (res.op = "parseDevices" /\ ~res.val.panic /\ arg.text # WikiSample) =>
        LET e == Entries(AudioSection(arg.lines))
            out == res.val.devices
        IN  /\ Len(out) = Len(e)
            /\ \A i \in 1..Len(e) :
                   out[i] = IF \E j \in 1..(i - 1) : out[j] = e[i].name
                            THEN e[i].alt
                            ELSE e[i].name

\* Two entries named Mic, the second with an alternative name.
C19_Witness ==
    /\ res.op = "parseDevices"
    /\ arg.lines = <<MicLine, MicLine, AltLine>>
    /\ res.val.devices = <<(<<"M", "i", "c">>), (<<"@", "m", "i", "c">>)>>

\* A step of the caller's Read, Write or Play: it returns in last' and leaves the
\* signal and the goroutine of cleanup where they are.
CallerIO ==
    /\ last'.op \in {"Read", "Write", "Play"}
    /\ UNCHANGED signalVars

\* A call that fails although the handle gives it no reason to: a Read of an
\* Audio that has not ended, has a started subprocess, bytes to come and room
\* in its buffer returns false; a Write or Play of a payload that converts to
\* bytes returns an error without the pipe having taken one of them.
FailsUnprovoked ==
    \/ /\ kind = "Audio"
       /\ last' = Call("Read", "false")
       /\ ~ended
       /\ cmd # "nil"
       /\ proc = "running"
       /\ stream # <<>>
       /\ Len(buffer.bytes) > 0
    \/ /\ kind \in {"AudioWriter", "Player"}
       /\ last'.ret = "error"
       /\ proc = "running"
       /\ ~samplesToBytes(payload', host).nil
       /\ written' = written

\* The signal reached a handle whose subprocess runs and whose pipe is open.
SignalledStarted == sig = "sent" /\ proc = "running" /\ pipe = "open" /\ Alive

\* The process exits with status 1 only after the goroutine closed the pipe and
\* killed the subprocess.
ExitAfterTeardown ==
    exit = "1" =>
        /\ resp.at = "done"
        /\ pipe # "open"
        /\ proc # "running"
        /\ phase = "exited"

C21_Original ==
    [][(closed /\ CallerIO) =>
           /\ spawned' = spawned
           /\ stream' = stream
           /\ written' = written]_vars

\* C22: a Write or Play of a payload whose element type is none of the eight
\* returns an error and hands no byte to the pipe; on an AudioWriter that has
\* not started, the call starts no subprocess, registers no listener and leaves
\* the handle unopened (no command, no pipe).
C22_InvalidSampleType ==
    [][(CallerIO /\ last'.op \in {"Write", "Play"} /\ TypeWidth(payload'.type) = 0) =>
           /\ last'.ret = "error"
           /\ written' = written
           /\ spawned' = spawned
           /\ listeners' = listeners
           /\ (kind = "AudioWriter" /\ cmd = "nil") =>
                  /\ cmd' = "nil"
                  /\ pipe' = "nil"
                  /\ proc' = "none"]_vars

\* An unopened AudioWriter has refused a payload of strings.
C22_Witness ==
    /\ kind = "AudioWriter"
    /\ last = Call("Write", "error")
    /\ payload.type = "string"
    /\ Len(payload.elems) > 0
    /\ cmd = "nil"
    /\ spawned = 0
    /\ listeners = 0
    /\ written = <<>>

\* C23: for a handle built from a valid short token, Format() returns that
\* token (u8 and s8 as stored, the others without the two characters of the
\* endianness suffix); normalizing what Format() returns gives the stored
\* tool-facing token again, so a handle built from it has the same format.
C23_FormatRoundTrip ==
    (fmtRes.op = "normalize" /\ fmtRes.err = "nil") =>
        /\ Format(fmtRes.out) = tok
        /\ createFormat(Format(fmtRes.out), host) = fmtRes.out
        /\ checkFormat(createFormat(Format(fmtRes.out), host)) = "nil"
        /\ tok \in {<<"u", "8">>, <<"s", "8">>} => Format(fmtRes.out) = fmtRes.out
        /\ tok \notin {<<"u", "8">>, <<"s", "8">>} =>
               Format(fmtRes.out) \o host = fmtRes.out

\* u8, stored without a suffix, has been normalized.
C23_Witness ==
    /\ fmtRes.op = "normalize"
    /\ fmtRes.err = "nil"
    /\ tok = <<"u", "8">>
    /\ fmtRes.out = <<"u", "8">>

TwentyFourBit ==
    {<<"u", "2", "4">> \o h : h \in Hosts} \cup {<<"s", "2", "4">> \o h : h \in Hosts}

\* C24: for u24 and s24, Samples()/bytesToSamples returns the byte buffer
\* itself: a []byte of the buffer's length with the buffer's bytes, and no error
\* (writing that view back gives the buffer).
C24_Raw24Bit ==
    (cphase \in {"decoded", "encoded"} /\ cfmt \in TwentyFourBit) =>
        /\ cview.type = "uint8"
        /\ Len(cview.elems) = Len(cbuf)
        /\ \A i \in 1..Len(cbuf) : cview.elems[i] = <<cbuf[i]>>
        /\ cphase = "encoded" => (~cout.nil /\ cout.bytes = cbuf)

\* Two s24 samples have been decoded: six bytes come back.
C24_Witness ==
    /\ cphase = "decoded"
    /\ cfmt = <<"s", "2", "4">> \o host
    /\ Len(cbuf) = 6
    /\ Len(cview.elems) = 6
    /\ cview.type = "uint8"

\* C25: a Read on a reader handle returns once its buffer is full or the pipe
\* gives no more bytes: no Read is left looping on a pipe that has ended or was
\* closed.
C25_Original == (kind \in {"Audio", "Microphone"}) => phase # "hung"

----------------------------------------------------------------------------
(* Claims about the loops that read a pipe (SpecPipe) *)

\* A read of the pipe returned an error other than io.EOF.
ReadFailed == res.val.failed

\* C26: when a read of the pipe fails for a reason other than the clean end of
\* the stream, the function reads the pipe no more, and what it returns to its
\* caller is an error, which no clean end of the stream gives.
C26_Original ==
    ReadFailed =>
        /\ res.val.retried = 0
        /\ res.op = "returned" => res.val.ret = "error"

----------------------------------------------------------------------------
(* Claims about Close and the subprocess (SpecClose) *)

\* The caller is inside Close, past pipe.Close().
Closing == phase = "closing"
\* Close returns to its caller.
CloseReturns == phase = "closing" /\ phase' = "ready"

\* C27, as stated: on every handle Close closes the pipe end before it waits
\* for the subprocess, a subprocess that was started has been waited for when
\* Close returns, and Close on a started handle returns.
C27_Original ==
    /\ [](Closing => pipe # "open")
    /\ [][CloseReturns => (proc \in {"running", "exited"} => proc' = "waited")]_vars
    /\ (Closing /\ proc = "running") ~> (phase = "ready")

\* C27, amended: on every handle the pipe end is closed before Close goes on to
\* the subprocess; Audio, AudioWriter and Player then wait for it, so that it
\* is reaped when Close returns, whereas Microphone kills it and never waits;
\* and on every started handle Close returns, the tool ending once it sees its
\* pipe closed, whatever data is left.
C27_CloseOrdering ==
    /\ [](Closing => pipe # "open")
    /\ [][CloseReturns =>
             IF kind = "Microphone"
             THEN proc' \notin {"running", "waited"}
             ELSE proc' \notin {"running", "exited"}]_vars
    /\ (Closing /\ proc = "running") ~> (phase = "ready")

\* Close returned on an Audio that had bytes left to read: the subprocess was
\* waited for.
C27_Witness ==
    /\ kind = "Audio"
    /\ last = Call("Close", "none")
    /\ proc = "waited"
    /\ pipe = "closed"
    /\ Len(stream) > 0

----------------------------------------------------------------------------
(* Claims about several handles and one signal (SpecRace) *)

\* The handles that were started.
StartedHandles == {h \in Handles : res.val[h].at # "none"}
\* The handles whose goroutine called os.Exit.
Exiting == {h \in Handles : res.val[h].at = "done"}
\* The handle's pipe is closed and its subprocess is not running.
TornDown(h) == res.val[h].pipe = "closed" /\ res.val[h].proc \in {"killed", "waited"}

\* C28: a signal wakes the goroutine of every started handle; the first one
\* to reach os.Exit ends the host process, after which no other goroutine takes
\* a step; at that moment its own handle has been torn down.
C28_SignalRace ==
    /\ [][(sig = "none" /\ sig' = "sent") =>
              \A h \in StartedHandles : res'.val[h].at = "woken"]_vars
    /\ [][exit = "none"]_vars
    /\ [](exit = "1" => /\ Cardinality(Exiting) = 1
                        /\ \A h \in Exiting : TornDown(h))

\* The host process has exited with two handles started, the second one's
\* goroutine woken and its subprocess still running on an open pipe.
C28_Witness ==
    /\ exit = "1"
    /\ Cardinality(StartedHandles) >= 2
    /\ \E h \in StartedHandles :
          /\ res.val[h].at = "woken"
          /\ res.val[h].proc = "running"
          /\ res.val[h].pipe = "open"

----------------------------------------------------------------------------
(* Claims about the signal listener of a handle (Spec) *)

\* The call that opens a handle of this kind: the constructor of a Player, the
\* first Read or Write of the others.
OpeningCall ==
    CASE kind = "Player" -> "New"
      [] kind = "AudioWriter" -> "Write"
      [] OTHER -> "Read"

\* C29: a handle registers a signal listener at most once; it registers it in
\* the call that opens it (the lazy start of the first Read or Write, the
\* constructor of a Player), which stores the command in the handle; and a
\* handle that was never opened has no listener.
C29_OneListener ==
    /\ [](listeners <= 1)
    /\ [](cmd = "nil" => listeners = 0)
    /\ [](spawned > 0 => listeners = 1)
    /\ [][listeners' # listeners =>
              /\ listeners' = listeners + 1
              /\ cmd = "nil" /\ cmd' = "set"
              /\ last'.op = OpeningCall]_vars

\* An Audio that delivered more than one buffer, so that Read was called
\* again after the lazy start, has one listener.
C29_Witness ==
    /\ kind = "Audio"
    /\ spawned = 1
    /\ listeners = 1
    /\ ~buffer.nil
    /\ Len(delivered) > Len(buffer.bytes)

----------------------------------------------------------------------------
(* Claims about the lazy start and the signal goroutine (SpecStart) *)

\* The goroutine takes its step at cmd.Process.Kill().
KillStep == resp.at = "closed" /\ resp'.at # "closed"
\* The goroutine takes its step at pipe.Close().
PipeStep == resp.at = "waiting" /\ resp'.at # "waiting"
\* The caller is inside init.
InLazyStart == \E step \in {"cleanup", "cmd", "pipe"} : InInit(step)

\* C30: whenever the goroutine runs while the caller is inside init, it closes
\* a pipe only if one was created, and it calls Kill only on a process that
\* was started: a command stored in the handle but not yet started is left
\* alone, and the goroutine does not panic.
C30_Original ==
    /\ [][(PipeStep /\ InLazyStart) => (pipe = "nil" => pipe' = "nil")]_vars
    /\ [][(KillStep /\ InLazyStart) =>
              /\ cmd # "nil" => proc # "none"
              /\ resp'.at # "panicked"]_vars

----------------------------------------------------------------------------
(* Claims about a signal after the handle was closed (SpecSignal) *)

\* A started handle was closed by its caller or, an Audio, at the end of its
\* stream: the pipe is closed and the subprocess waited for or killed.
ClosedNormally ==
    /\ spawned > 0
    /\ closed \/ ended
    /\ pipe = "closed"
    /\ proc \in {"waited", "killed"}

\* C31: no call takes a registered listener away; and when a signal arrives
\* after a started handle was closed, by Close or at the end of the stream, the
\* handle's goroutine still runs, goes through its pipe close and its kill on
\* the closed handle without changing it, and ends the host process.
C31_ListenerSurvivesClose ==
    /\ [][listeners' >= listeners]_vars
    /\ (ClosedNormally /\ sig = "sent" /\ resp.at = "waiting") ~> (exit = "1")
    /\ [][(ClosedNormally /\ resp'.at # resp.at) =>
              /\ pipe' = pipe
              /\ proc' = proc
              /\ resp'.at # "panicked"]_vars

\* The host process has exited on a signal that found the handle closed by
\* its caller: the goroutine found the pipe closed already.
C31_Witness ==
    /\ exit = "1"
    /\ closed
    /\ spawned = 1
    /\ listeners = 1
    /\ proc = "waited"
    /\ resp = [at |-> "done", shut |-> FALSE]

----------------------------------------------------------------------------
(* Claims about Close in every state (Spec) *)

\* The step is a call of Close.
CloseCall == last'.op = "Close" /\ UNCHANGED signalVars
\* What Close can change of a handle.
Teardown == <<pipe, proc, ended, phase>>

\* C32: Close does not fail in any state of any handle (never started,
\* started, ended, after a failed lazy start, closed before), it leaves the
\* pipe closed if there is one and no subprocess running, and a Close after a
\* Close changes nothing.
C32_Original ==
    [][CloseCall =>
           /\ last'.ret = "none"
           /\ phase' = "ready"
           /\ pipe' # "open"
           /\ proc' # "running"
           /\ last.op = "Close" => Teardown' = Teardown]_vars

----------------------------------------------------------------------------
(* Claims about a failed lazy start (Spec) *)

\* init has run and returned an error: the command is stored in the handle
\* and no subprocess was started.
FailedStart == cmd = "set" /\ proc = "none" /\ spawned = 0
\* The call reports a failure to its caller: false from Read, an error from
\* Write.
ReportsFailure == last'.ret \in {"false", "error"} /\ phase' = "ready"

\* C33: the Read or Write in which the lazy start fails reports a failure, and
\* so does every later Read or Write on the handle, which neither touches the
\* missing pipe, nor starts a subprocess, nor moves a byte.
C33_Original ==
    /\ [][(CallerIO /\ cmd = "nil" /\ FailedStart') => ReportsFailure]_vars
    /\ [][(CallerIO /\ FailedStart) =>
              /\ ReportsFailure
              /\ spawned' = spawned
              /\ stream' = stream
              /\ written' = written]_vars

----------------------------------------------------------------------------
(* Claims about the constructors (SpecNew) *)

\* The caller's format token is not one of the catalog.
BadFormat ==
    /\ Resolve(arg.options).Format # <<>>
    /\ checkFormat(createFormat(Resolve(arg.options).Format, host)) # "nil"
\* The file the constructor is to open does not exist.
FileMissing ==
    \/ arg.fn = "NewAudioStreams" /\ ~arg.present
    \/ arg.fn = "NewAudioWriter" /\ arg.streamFile = "missing"
\* The run of a tool on the file or device, not the -version run of installed.
AgainstTarget(t) == t.args # "-version"

\* C34: a constructor given an invalid format token or a missing file returns
\* an error and no handle, and has run no tool on the file or device by then.
C34_Original ==
    (res.op # "none" /\ (BadFormat \/ FileMissing)) =>
        /\ res.val.err # "nil"
        /\ res.val.handles = <<>>
        /\ \A i \in 1..Len(res.val.tools) : ~AgainstTarget(res.val.tools[i])

----------------------------------------------------------------------------
(* Claims about reading a tool's output to its end (SpecDrain) *)

\* The tool is blocked in a write: it has bytes left and the pipe is full.
ToolBlocked ==
    /\ res.val.tool = "running"
    /\ res.val.written < arg.size
    /\ res.val.held = PipeCapacity

\* C35: ffprobe, getDevicesWindows and getMicrophoneData wait for the tool
\* only after they read its pipe to the end: while the caller waits, the tool
\* is not blocked on a full pipe and nothing is left in the pipe; and whatever
\* the size of the output, the function returns, having read all of it.
C35_DrainBeforeWait ==
    /\ [](res.val.caller = "waiting" =>
              /\ ~ToolBlocked
              /\ res.val.held = 0
              /\ res.val.got = arg.size)
    /\ <>(res.val.caller = "returned")
    /\ [](res.val.caller = "returned" => res.val.got = arg.size)

\* The function returned after a tool printed more than the pipe holds.
C35_Witness ==
    /\ arg.size > PipeCapacity
    /\ res.val.caller = "returned"
    /\ res.val.tool = "exited"
    /\ res.val.got = arg.size

----------------------------------------------------------------------------
(* Claims about the list ffprobe returns (SpecParse) *)

\* The number of the line the character at place p is on, counting from 1.
LineOf(text, p) == 1 + Cardinality({q \in 1..(p - 1) : text[q] = "\n"})
\* The lines of the text that hold a character other than white space.
RecordLines(text) ==
    {LineOf(text, p) : p \in {q \in 1..Len(text) : text[q] \notin WhiteSpace}}
\* The k-th smallest of a set of numbers.
Nth(set, k) == CHOOSE n \in set : Cardinality({m \in set : m < n}) = k - 1
\* The characters of line n, in order, without the line end.
LineText(text, n) ==
    LET places == {p \in 1..Len(text) : LineOf(text, p) = n /\ text[p] # "\n"}
    IN  [k \in 1..Cardinality(places) |-> text[Nth(places, k)]]

\* C36: ffprobe returns one map for each line of the output that is not blank,
\* in the order of the lines, the k-th map being the one of the k-th such
\* line; lines that are empty or hold white space only give no map; and an
\* empty output gives the empty list.
C36_OneMapPerLine ==
    res.op = "ffprobe" =>
        /\ Len(res.val) = Cardinality(RecordLines(arg.text))
        /\ \A k \in 1..Len(res.val) :
              res.val[k] = parseFFprobe(LineText(arg.text, Nth(RecordLines(arg.text), k)))
        /\ arg.text = <<>> => res.val = <<>>

\* Two records with blank lines between and after them gave two maps.
C36_Witness ==
    /\ res.op = "ffprobe"
    /\ arg.text = <<"a", "=", "1", "\n", " ", "\t", "\n", "\r", "\n", "b", "=", "2", "\n">>
    /\ Len(res.val) = 2
    /\ res.val[2]["b"] = <<"2">>

\* The format NewAudioStreams is asked for is one of the catalog.
GoodFormat == checkFormat(OptionFormat(Resolve(arg.options))) = "nil"
\* One of the video, subtitle, data and attachment probes printed a record.
OtherStreams == \E c \in {"v", "s", "d", "t"} : arg.probe[c] # <<>>

\* C37: NewAudioStreams on an existing file returns an error and no handle
\* when the audio probe is empty.  Otherwise, the format being valid, it
\* returns without an error one handle for each audio record, Stream() being
\* the record's place counted from 0, and HasStreams() is true on every handle
\* exactly if one of the four other probes is not empty.
C37_StreamHandles ==
    (res.op \in {"NewAudioStreams", "Stream"} /\ arg.present) =>
        /\ arg.probe["a"] = <<>> => (res.val.err # "nil" /\ res.val.handles = <<>>)
        /\ (arg.probe["a"] # <<>> /\ GoodFormat) =>
              /\ res.val.err = "nil"
              /\ Len(res.val.handles) = Len(arg.probe["a"])
              /\ res.op = "Stream" =>
                    /\ Len(res.streams) = Len(arg.probe["a"])
                    /\ \A i \in 1..Len(res.streams) :
                          /\ res.streams[i] = i - 1
                          /\ res.hasstreams[i] = OtherStreams

\* Two audio streams in a file whose only other stream is an attachment:
\* Stream() is 0 and 1, HasStreams() is true on both.
C37_Witness ==
    /\ res.op = "Stream"
    /\ res.streams = <<0, 1>>
    /\ res.hasstreams = <<TRUE, TRUE>>
    /\ arg.probe["v"] = <<>>
    /\ arg.probe["s"] = <<>>
    /\ arg.probe["d"] = <<>>
    /\ arg.probe["t"] # <<>>

----------------------------------------------------------------------------
(* Claims about the device list (SpecParse) *)

\* C38: parseDevices returns a list for every text, whatever the order and
\* number of its device lines and alternative-name lines; an alternative-name
\* line with a quoted string before any device line makes it fail no more
\* than any other.
C38_Original == res.op = "parseDevices" => ~res.val.panic

\* C39: the names parseDevices returns are not empty and differ from each
\* other, whatever the text.
C39_Original ==
    (res.op = "parseDevices" /\ ~res.val.panic) =>
        /\ \A i \in 1..Len(res.val.devices) : res.val.devices[i] # <<>>
        /\ \A i, j \in 1..Len(res.val.devices) :
              i # j => res.val.devices[i] # res.val.devices[j]

----------------------------------------------------------------------------
(* Claims about the microphone metadata (SpecMic) *)

\* The place of the first "Stream #" in the text, 1 when there is none.
FromMarker(text) ==
    LET marks == {p \in 1..Len(text) : OccursAt(text, StreamMarker, p)}
    IN  IF marks = {} THEN 1 ELSE CHOOSE p \in marks : \A q \in marks : p <= q
\* The last digit of the number that begins at p.
NumberEnd(text, p) ==
    CHOOSE q \in p..Len(text) :
        /\ \A k \in p..q : text[k] \in Digits
        /\ q = Len(text) \/ text[q + 1] \notin Digits
\* The places at or after from where a number followed by " Hz" begins.
HzNumbers(text, from) ==
    {p \in from..Len(text) :
        /\ text[p] \in Digits
        /\ p = from \/ text[p - 1] \notin Digits
        /\ OccursAt(text, HzUnit, NumberEnd(text, p) + 1)}
\* The word occurs at or after from.
Says(text, from, word) == \E p \in from..Len(text) : OccursAt(text, word, p)

\* C40: the sample rate parseMicrophoneData stores is the number of the first
\* "N Hz" at or after the first "Stream #" (the whole text counting when there
\* is no marker), and stays what it was when there is none; the channels are 1
\* exactly if the text from the marker on says mono and does not say stereo,
\* and 2 otherwise.
C40_MicrophoneData ==
    res.op = "parseMicrophoneData" =>
        LET from == FromMarker(arg.text)
            numbers == HzNumbers(arg.text, from)
            first == CHOOSE p \in numbers : \A q \in numbers : p <= q
        IN  /\ res.val.samplerate =
                  (IF numbers = {} THEN 0
                   ELSE DecVal(SubSeq(arg.text, first, NumberEnd(arg.text, first))))
            /\ res.val.channels =
                  (IF Says(arg.text, from, mono) /\ ~Says(arg.text, from, stereo)
                   THEN 1 ELSE 2)

\* The text of the test gives 44100 Hz and two channels.
C40_Witness ==
    /\ res.op = "parseMicrophoneData"
    /\ arg.text = MicSample
    /\ res.val = [samplerate |-> 44100, channels |-> 2]

====
